---- MODULE Spec2Model ----
(***************************************************************************)
(* A model of the FAT32 driver in src/fat32.c: the per-volume single       *)
(* sector cache (fat_read / fat_flush), the FAT table engine               *)
(* (fat_table_get / fat_table_set / fat_get_cluster), the mount pipeline   *)
(* (disk_mount, fat_search, fat_volume_add), the directory walk            *)
(* (fat_dir_get_next, fat_dir_search, fat_follow_path) and the file cursor *)
(* (fat_file_open / fat_file_jump / fat_file_read).                        *)
(*                                                                         *)
(* Sectors are 512-byte arrays, as on the device.  A u32 is held as its    *)
(* two's-complement bit pattern: a value v >= 2^31 is the integer          *)
(* v - 2^32, and the u32_* operators compute modulo 2^32 on 16-bit halves. *)
(***************************************************************************)
EXTENDS Integers, Sequences, FiniteSets, TLC

VARIABLES
    disk,           \* the block device: LBA -> 512 bytes
    volumes,        \* the allocated volume_s structs, by address (1, 2, ...)
    volume_base,    \* head of the volume list (an address or NULL)
    volume_bitmask, \* letters in use, bit i <-> 'C' + i
    mount_buffer,   \* the static 512-byte mount scratch buffer
    file,           \* the caller's struct file_s
    out_buf,        \* the bytes the last fat_file_read stored in the caller's buffer
    dir,            \* the directory cursor of the caller (struct dir_s)
    ret,            \* the last call: its name, arguments, return value, out values
    io_log,         \* the cache and block-device events of the last call, in order
    written,        \* LBA -> the bytes the driver last stored for that LBA, for
                    \* the LBAs it has stored bytes for
    steps           \* number of calls made so far

vars == <<disk, volumes, volume_base, volume_bitmask, mount_buffer, file,
          out_buf, dir, ret, io_log, written, steps>>

-----------------------------------------------------------------------------
(* Bounds of the model *)

\* Calls made after construction in one behaviour.
MaxSteps == 3
\* A block-device call of a handler may fail when its index is at most this.
MaxFailAt == 2
\* The same for the block-device calls of disk_mount.
MaxMountFailAt == 3

-----------------------------------------------------------------------------
(* Program constants *)

NULL == 0
SectorBytes == 512
\* fat32.h is not part of src/: the offsets and masks below are the ones the
\* specification gives for the on-disk format.
MBR_BOOT_SIG == 510
MBR_BOOT_SIG_VALUE == 43605
MBR_PARTITION == 446
MBR_PARTITION_SIZE == 16
PAR_STATUS == 0
PAR_TYPE == 4
PAR_LBA == 8
PAR_SIZE == 12
BPB_SECTOR_SIZE == 11
BPB_CLUSTER_SIZE == 13
BPB_RSVD_CNT == 14
BPB_NUM_FATS == 16
BPB_ROOT_ENT_CNT == 17
BPB_TOT_SECT_16 == 19
BPB_FAT_SIZE_16 == 22
BPB_TOT_SECT_32 == 32
BPB_32_FAT_SIZE == 36
BPB_32_ROOT_CLUST == 44
BPB_32_FSINFO == 48
BPB_16_FSTYPE == 54
BPB_32_FSTYPE == 82
INFO_CLUST_CNT == 488
INFO_CLUST_NEXT_FREE == 492
SFN_ATTR == 11
SFN_CLUSTH == 20
SFN_CLUSTL == 26
SFN_FILE_SIZE == 28
ATTR_VOL_LABEL == 8
ATTR_LFN == 15
LFN_SEQ == 0
LFN_SEQ_MSK == 31
LFN_CRC == 13
\* fstatus: the enumeration of fat32.h, in its order of declaration.
FSTATUS_OK == 0
FSTATUS_ERROR == 1
FSTATUS_NO_VOLUME == 2
FSTATUS_PATH_ERR == 3
FSTATUS_EOF == 4
\* The end-of-chain mark fat_get_cluster stores (0xFFFFFFF).
EOC_MARK == 268435455

-----------------------------------------------------------------------------
(* 32-bit unsigned arithmetic on two's-complement bit patterns *)

Lo16(x) == x % 65536
Hi16(x) == (x \div 65536) % 65536
FromHalves(hi, lo) == lo + 65536 * (IF hi >= 32768 THEN hi - 65536 ELSE hi)

\* a + b and a - b modulo 2^32; operands below 2^30 cannot wrap a sum, and
\* a difference of 0 <= b <= a cannot wrap
u32_add(a, b) ==
    IF a >= 0 /\ a < 1073741824 /\ b >= 0 /\ b < 1073741824 THEN a + b
    ELSE LET lo == Lo16(a) + Lo16(b)
             hi == Hi16(a) + Hi16(b) + (lo \div 65536)
         IN  FromHalves(hi % 65536, lo % 65536)

u32_sub(a, b) ==
    IF b >= 0 /\ a >= b THEN a - b
    ELSE LET lo == Lo16(a) - Lo16(b)
             hi == (Hi16(a) - Hi16(b)) + (lo \div 65536)
         IN  FromHalves(hi % 65536, lo % 65536)

\* a * m modulo 2^32, for a multiplier below 2^15
u32_mul(a, m) ==
    LET lo == Lo16(a) * m
        hi == Hi16(a) * m + (lo \div 65536)
    IN  FromHalves(hi % 65536, lo % 65536)

\* unsigned a / d and a % d, for a divisor 0 < d < 2^15
u32_div(a, d) ==
    LET qh == Hi16(a) \div d
        rh == Hi16(a) % d
    IN  FromHalves(qh, (rh * 65536 + Lo16(a)) \div d)

u32_mod(a, d) == ((Hi16(a) % d) * 65536 + Lo16(a)) % d

\* unsigned a < b
u32_lt(a, b) == IF (a >= 0) = (b >= 0) THEN a < b ELSE b < 0
u32_ge(a, b) == ~u32_lt(a, b)

-----------------------------------------------------------------------------
(* Byte codec *)

fat_load16(buf, off) == buf[off] + 256 * buf[off + 1]

fat_load32(buf, off) ==
    FromHalves(buf[off + 2] + 256 * buf[off + 3], buf[off] + 256 * buf[off + 1])

fat_store32(buf, off, value) ==
    [buf EXCEPT ![off]     = value % 256,
                ![off + 1] = (value \div 256) % 256,
                ![off + 2] = (value \div 65536) % 256,
                ![off + 3] = (value \div 16777216) % 256]

fat_store16(buf, off, value) ==
    [buf EXCEPT ![off] = value % 256, ![off + 1] = (value \div 256) % 256]

\* fat_memcmp(src_1 + off, str, count): 1 when the count bytes are equal
fat_memcmp(buf, off, str, count) ==
    IF count = 0 THEN 1
    ELSE IF \A i \in 1..count : buf[off + i - 1] = str[i] THEN 1 ELSE 0

-----------------------------------------------------------------------------
(* The disk image the behaviours start from *)

\* One MBR partition holding a FAT32 file system: MBR at LBA 0, BPB at LBA 1,
\* FSInfo at LBA 2, one FAT of two sectors at LBA 3..4 (256 entries), data
\* from LBA 5 in clusters of two sectors: cluster 2 is the root directory,
\* clusters 3, 5, 4 (in that order) the file's chain, cluster 6 is spare.
Layout ==
    [part_lba |-> 1, fsinfo |-> 1, rsvd_cnt |-> 2, num_fats |-> 1,
     fat_size |-> 2, cluster_size |-> 2, root_cluster |-> 2,
     tot_sect |-> 200000, num_sectors |-> 15, free_count |-> 50]

NumSectors == Layout.num_sectors
LBAs == 0..(NumSectors - 1)
FatLba == Layout.part_lba + Layout.rsvd_cnt
InfoLba == Layout.part_lba + Layout.fsinfo
DataLba == FatLba + Layout.num_fats * Layout.fat_size
ClusterBytes == Layout.cluster_size * SectorBytes
FileChain == <<3, 5, 4>>

Zero512 == [i \in 0..(SectorBytes - 1) |-> 0]
\* What freshly allocated memory may hold.
JunkSector == [i \in 0..(SectorBytes - 1) |-> 165]
UninitSectors == {Zero512, JunkSector}

RECURSIVE PutFrom(_, _, _, _)
PutFrom(buf, off, bytes, i) ==
    IF i > Len(bytes) THEN buf
    ELSE PutFrom([buf EXCEPT ![off + i - 1] = bytes[i]], off, bytes, i + 1)

\* buf with bytes stored from offset off on
PutBytes(buf, off, bytes) == PutFrom(buf, off, bytes, 1)

FAT_STR == <<70, 65, 84>>

MbrImage ==
    LET p0 == fat_store32(Zero512, MBR_PARTITION + PAR_LBA, Layout.part_lba)
        p1 == fat_store32(p0, MBR_PARTITION + PAR_SIZE, Layout.tot_sect)
        p2 == [p1 EXCEPT ![MBR_PARTITION + PAR_TYPE] = 12]
    IN  fat_store16(p2, MBR_BOOT_SIG, MBR_BOOT_SIG_VALUE)

BpbImage ==
    LET b0 == fat_store16(Zero512, BPB_SECTOR_SIZE, SectorBytes)
        b1 == [b0 EXCEPT ![BPB_CLUSTER_SIZE] = Layout.cluster_size,
                         ![BPB_NUM_FATS] = Layout.num_fats]
        b2 == fat_store16(b1, BPB_RSVD_CNT, Layout.rsvd_cnt)
        b3 == fat_store32(b2, BPB_TOT_SECT_32, Layout.tot_sect)
        b4 == fat_store32(b3, BPB_32_FAT_SIZE, Layout.fat_size)
        b5 == fat_store32(b4, BPB_32_ROOT_CLUST, Layout.root_cluster)
        b6 == fat_store16(b5, BPB_32_FSINFO, Layout.fsinfo)
        b7 == PutBytes(b6, BPB_32_FSTYPE, FAT_STR)
    IN  fat_store16(b7, MBR_BOOT_SIG, MBR_BOOT_SIG_VALUE)

InfoImage(next_free, free_count) ==
    fat_store32(fat_store32(Zero512, INFO_CLUST_NEXT_FREE, next_free),
                INFO_CLUST_CNT, free_count)

\* The FAT entry of each cluster: the reserved entries 0 and 1, the root
\* directory (one cluster), the file's chain of nclust clusters, and the
\* entries `over` sets; every other cluster is in use (end of a chain).
FatEntry(c, nclust, over) ==
    IF c \in DOMAIN over THEN over[c]
    ELSE IF \E k \in 1..nclust : FileChain[k] = c
         THEN LET k == CHOOSE k \in 1..nclust : FileChain[k] = c
              IN  IF k = nclust THEN EOC_MARK ELSE FileChain[k + 1]
         ELSE EOC_MARK

FatImage(s, nclust, over) ==
    [i \in 0..(SectorBytes - 1) |->
        LET e == FatEntry(128 * s + (i \div 4), nclust, over)
        IN  CASE i % 4 = 0 -> e % 256
              [] i % 4 = 1 -> (e \div 256) % 256
              [] i % 4 = 2 -> (e \div 65536) % 256
              [] OTHER     -> (e \div 16777216) % 256]

\* A 32-byte short-name directory record.
SfnRecord(name, attr, cluster, size) ==
    LET z  == [i \in 0..31 |-> IF i < 11 THEN name[i + 1] ELSE 0]
        r0 == [z EXCEPT ![SFN_ATTR] = attr,
                        ![SFN_CLUSTH] = (cluster \div 65536) % 256,
                        ![SFN_CLUSTH + 1] = (cluster \div 16777216) % 256,
                        ![SFN_CLUSTL] = cluster % 256,
                        ![SFN_CLUSTL + 1] = (cluster \div 256) % 256,
                        ![SFN_FILE_SIZE] = size % 256,
                        ![SFN_FILE_SIZE + 1] = (size \div 256) % 256,
                        ![SFN_FILE_SIZE + 2] = (size \div 65536) % 256,
                        ![SFN_FILE_SIZE + 3] = (size \div 16777216) % 256]
    IN  [i \in 1..32 |-> r0[i - 1]]

\* "FATVOL     " and "DATAFILE   "
LabelName == <<70, 65, 84, 86, 79, 76, 32, 32, 32, 32, 32>>
FileName == <<68, 65, 84, 65, 70, 73, 76, 69, 32, 32, 32>>

\* The root directory: the volume label, the file, then the end marker.
RootImage(size, nclust) ==
    LET f == IF nclust = 0 THEN 0 ELSE FileChain[1]
    IN  PutBytes(PutBytes(Zero512, 0, SfnRecord(LabelName, ATTR_VOL_LABEL, 0, 0)),
                 32, SfnRecord(FileName, 32, f, size))

DataByte(lba, off) == (17 * lba + off) % 251
DataImage(lba) == [i \in 0..(SectorBytes - 1) |-> DataByte(lba, i)]

\* The number of clusters a file of `size` bytes occupies.
ClustersOf(size) == (size + ClusterBytes - 1) \div ClusterBytes

DiskImage(size, over, next_free) ==
    [l \in LBAs |->
        CASE l = 0 -> MbrImage
          [] l = Layout.part_lba -> BpbImage
          [] l = InfoLba -> InfoImage(next_free, Layout.free_count)
          [] l >= FatLba /\ l < DataLba -> FatImage(l - FatLba, ClustersOf(size), over)
          [] l = DataLba -> RootImage(size, ClustersOf(size))
          [] OTHER -> DataImage(l)]

\* Byte k of the file, read off the image along the file's chain.
FileByte(k) ==
    LET c == FileChain[(k \div ClusterBytes) + 1]
        l == DataLba + (c - 2) * Layout.cluster_size
                     + ((k \div SectorBytes) % Layout.cluster_size)
    IN  DataByte(l, k % SectorBytes)

-----------------------------------------------------------------------------
(* A call in progress *)

\* The state a handler works on: the device, the volume it was given, its
\* file cursor and directory cursor, the events it has caused, the indices
\* of its block-device calls that fail, and the return value (r) and out
\* value (val) of the function that ran last.  brk ends a loop; loc holds
\* the locals of the handler's loop.
NewCall(dsk, vol, fail, shadow) ==
    [dsk |-> dsk, vol |-> vol, fail |-> fail, shadow |-> shadow,
     log |-> <<>>, nio |-> 0, r |-> 1, val |-> 0, brk |-> FALSE, wild |-> FALSE,
     loc |-> <<>>, dir |-> <<>>, file |-> <<>>, out |-> <<>>]

\* v, named for the operator Op: let x = v in Op(x).
With(v, Op(_)) == Op(v)

\* Runs a loop body until it sets brk, n times at most.
RECURSIVE Repeat(_, _, _)
Repeat(Body(_), st, n) ==
    IF n = 0 \/ st.brk THEN st
    ELSE IF n = 1 THEN Body(st)
    ELSE With(Repeat(Body, st, n \div 2), LAMBDA mid :
              IF mid.brk THEN mid ELSE Repeat(Body, mid, n - (n \div 2)))

\* The block device: one sector is transferred whole or not at all; a call
\* fails when the device fails it or when the LBA is past the device's end.
disk_read(c, lba) ==
    With((c.nio + 1) \notin c.fail /\ lba \in DOMAIN c.dsk, LAMBDA ok :
         [c EXCEPT !.nio = @ + 1,
                   !.log = Append(@, [ev |-> "disk_read", lba |-> lba, ok |-> ok]),
                   !.vol.buffer = IF ok THEN c.dsk[lba] ELSE @,
                   !.r = IF ok THEN 1 ELSE 0])

disk_write(c, lba) ==
    With((c.nio + 1) \notin c.fail /\ lba \in DOMAIN c.dsk, LAMBDA ok :
         [c EXCEPT !.nio = @ + 1,
                   !.log = Append(@, [ev |-> "disk_write", lba |-> lba, ok |-> ok,
                                      data |-> c.vol.buffer]),
                   !.dsk = IF ok THEN [@ EXCEPT ![lba] = c.vol.buffer] ELSE @,
                   !.r = IF ok THEN 1 ELSE 0])

\* The history of stores: LBA -> the bytes the driver last stored for it.
Stored(shadow, lba, bytes) ==
    [l \in DOMAIN shadow \cup {lba} |-> IF l = lba THEN bytes ELSE shadow[l]]

\* A store into vol->buffer by a layer above the cache.
buffer_store32(c, off, value) ==
    With(fat_store32(c.vol.buffer, off, value), LAMBDA b :
         [c EXCEPT !.vol.buffer = b, !.shadow = Stored(@, c.vol.buffer_lba, b)])

-----------------------------------------------------------------------------
(* Sector cache *)

\* The call state c with the reload of the cache to lba recorded.
Reloading(c, lba) ==
    [c EXCEPT !.log = Append(@,
        [ev |-> "reload", lba |-> lba, old_lba |-> c.vol.buffer_lba,
         dirty |-> c.vol.buffer_dirty, buffer |-> c.vol.buffer])]

fat_flush(c) ==
    IF c.vol.buffer_dirty # 0
    THEN With(disk_write(c, c.vol.buffer_lba), LAMBDA w :
              IF w.r = 0 THEN [w EXCEPT !.r = 0]
              ELSE [w EXCEPT !.vol.buffer_dirty = 0, !.r = 1])
    ELSE [c EXCEPT !.r = 1]

\* A reload that does not write a dirty buffer back first.
fat_read_without_flush(c, lba) ==
    IF c.vol.buffer_lba = lba THEN [c EXCEPT !.r = 1]
    ELSE With(disk_read(Reloading(c, lba), lba), LAMBDA d :
              IF d.r = 0 THEN [d EXCEPT !.r = 0]
              ELSE [d EXCEPT !.vol.buffer_lba = lba, !.r = 1])

\* A reload that records the new LBA before the sector has been read.
fat_read_lba_first(c, lba) ==
    IF c.vol.buffer_lba = lba THEN [c EXCEPT !.r = 1]
    ELSE With(fat_flush(Reloading(c, lba)), LAMBDA f :
         IF f.r = 0 THEN [f EXCEPT !.r = 0]
         ELSE With(disk_read([f EXCEPT !.vol.buffer_lba = lba], lba), LAMBDA d :
                   IF d.r = 0 THEN [d EXCEPT !.r = 0] ELSE [d EXCEPT !.r = 1]))

fat_read(c, lba) ==
    IF c.vol.buffer_lba = lba THEN [c EXCEPT !.r = 1]
    ELSE With(fat_flush(Reloading(c, lba)), LAMBDA f :
         IF f.r = 0 THEN [f EXCEPT !.r = 0]
         ELSE With(disk_read(f, lba), LAMBDA d :
                   IF d.r = 0 THEN [d EXCEPT !.r = 0]
                   ELSE [d EXCEPT !.vol.buffer_lba = lba, !.r = 1]))

-----------------------------------------------------------------------------
(* Cluster / sector arithmetic *)

fat_sect_to_clust(vol, sect) ==
    u32_add(u32_div(u32_sub(sect, vol.data_lba), vol.cluster_size), 2)

fat_clust_to_sect(vol, clust) ==
    u32_add(u32_mul(u32_sub(clust, 2), vol.cluster_size), vol.data_lba)

\* (entry & 0xFFFFFFF) in [0xFFFFFF8, 0xFFFFFFF]
IsEoc(entry) ==
    LET eoc_value == entry % 268435456
    IN  eoc_value >= 268435448 /\ eoc_value <= 268435455

-----------------------------------------------------------------------------
(* FAT table engine *)

fat_table_get(c, cluster) ==
    With(fat_read(c, u32_add(c.vol.fat_lba, u32_div(cluster, 128))), LAMBDA c1 :
         IF c1.r = 0 THEN [c1 EXCEPT !.r = 0]
         ELSE [c1 EXCEPT !.val = fat_load32(c1.vol.buffer, u32_mod(cluster, 128) * 4),
                         !.r = 1])

fat_table_set(c, cluster, fat_entry) ==
    With(fat_read(c, u32_add(c.vol.fat_lba, u32_div(cluster, 128))), LAMBDA c1 :
         IF c1.r = 0 THEN [c1 EXCEPT !.r = 0]
         ELSE With(buffer_store32(c1, 4 * u32_mod(cluster, 128), fat_entry), LAMBDA c2 :
                   [fat_flush([c2 EXCEPT !.vol.buffer_dirty = 1]) EXCEPT !.r = 1]))

\* (entry & 0b1111111) == 0
EntryAvailable(entry) == entry % 128 = 0

\* A scan that also marks the entry it stops at.
fat_get_cluster_scan_marking_next(c) ==
    With(fat_read(c, c.loc.sector), LAMBDA c1 :
    IF c1.r = 0 THEN [c1 EXCEPT !.brk = TRUE, !.loc.returned = TRUE, !.r = 0]
    ELSE With(fat_load32(c1.vol.buffer, c1.loc.rw), LAMBDA entry :
    IF EntryAvailable(entry) /\ c1.loc.match_found = 1
    THEN [buffer_store32(c1, c1.loc.rw, EOC_MARK) EXCEPT
            !.brk = TRUE, !.loc.entry = entry, !.vol.buffer_dirty = 1]
    ELSE With(IF EntryAvailable(entry)
              THEN [buffer_store32(c1, c1.loc.rw, EOC_MARK) EXCEPT
                      !.loc.match_found = 1,
                      !.loc.cluster =
                          u32_add(u32_mul(u32_sub(c1.loc.sector, c1.vol.fat_lba), 128),
                                  c1.loc.rw \div 4),
                      !.vol.buffer_dirty = 1]
              ELSE c1, LAMBDA c2 :
         IF c2.loc.rw + 4 >= c2.vol.sector_size
         THEN [c2 EXCEPT !.loc.sector = u32_add(@, 1), !.loc.rw = 0,
                         !.loc.entry = entry]
         ELSE [c2 EXCEPT !.loc.rw = @ + 4, !.loc.entry = entry])))

\* One turn of the while (1) loop of fat_get_cluster.
fat_get_cluster_scan(c) ==
    With(fat_read(c, c.loc.sector), LAMBDA c1 :
    IF c1.r = 0 THEN [c1 EXCEPT !.brk = TRUE, !.loc.returned = TRUE, !.r = 0]
    ELSE With(fat_load32(c1.vol.buffer, c1.loc.rw), LAMBDA entry :
    IF EntryAvailable(entry) /\ c1.loc.match_found = 1
    THEN [c1 EXCEPT !.brk = TRUE, !.loc.entry = entry]
    ELSE With(IF EntryAvailable(entry)
              THEN [buffer_store32(c1, c1.loc.rw, EOC_MARK) EXCEPT
                      !.loc.match_found = 1,
                      !.loc.cluster =
                          u32_add(u32_mul(u32_sub(c1.loc.sector, c1.vol.fat_lba), 128),
                                  c1.loc.rw \div 4),
                      !.vol.buffer_dirty = 1]
              ELSE c1, LAMBDA c2 :
         IF c2.loc.rw + 4 >= c2.vol.sector_size
         THEN [c2 EXCEPT !.loc.sector = u32_add(@, 1), !.loc.rw = 0,
                         !.loc.entry = entry]
         ELSE [c2 EXCEPT !.loc.rw = @ + 4, !.loc.entry = entry])))

\* The scan ends at the latest when it runs off the device.
ScanTurns == (NumSectors + 2) * 128

\* fat_get_cluster ends without a return statement: `undef` is the value the
\* caller then finds in the return register.  val is *cluster.
fat_get_cluster(c, undef) ==
    With(fat_read(c, c.vol.info_lba), LAMBDA c1 :
    IF c1.r = 0 THEN [c1 EXCEPT !.r = 0, !.loc = [done |-> FALSE]]
    ELSE
    With(fat_load32(c1.vol.buffer, INFO_CLUST_NEXT_FREE), LAMBDA next_free :
    With(fat_load32(c1.vol.buffer, INFO_CLUST_CNT), LAMBDA tot_free :
    With(Repeat(fat_get_cluster_scan,
                [c1 EXCEPT !.loc =
                    [sector |-> u32_add(c1.vol.fat_lba, u32_div(next_free, 128)),
                     rw |-> u32_mod(next_free, 128) * 4,
                     entry |-> 0, match_found |-> 0, cluster |-> c.val,
                     returned |-> FALSE]],
                ScanTurns), LAMBDA c3 :
    IF c3.loc.returned
    THEN [c3 EXCEPT !.brk = FALSE, !.val = c3.loc.cluster, !.r = 0,
                    !.loc = [done |-> FALSE]]
    ELSE
    With(fat_read([c3 EXCEPT !.brk = FALSE, !.val = c3.loc.cluster], c3.vol.info_lba),
         LAMBDA c4 :
    IF c4.r = 0 THEN [c4 EXCEPT !.r = 0, !.loc = [done |-> FALSE]]
    ELSE
    With(buffer_store32(
             buffer_store32(c4, INFO_CLUST_NEXT_FREE,
                 u32_add(u32_mul(u32_sub(c3.loc.sector, c4.vol.fat_lba), 128),
                         c3.loc.rw \div 4)),
             INFO_CLUST_CNT, u32_sub(tot_free, 1)), LAMBDA c6 :
         [fat_flush([c6 EXCEPT !.vol.buffer_dirty = 1]) EXCEPT
             !.r = undef, !.loc = [done |-> TRUE]]))))))

-----------------------------------------------------------------------------
(* Directory cursor *)

\* A store of bytes into vol->buffer by a layer above the cache.
buffer_store_bytes(c, off, bytes) ==
    With(PutBytes(c.vol.buffer, off, bytes), LAMBDA b :
         [c EXCEPT !.vol.buffer = b, !.shadow = Stored(@, c.vol.buffer_lba, b)])

\* fat_dir_get_next on the cursor c.dir.  A cursor whose vol was never set
\* (vol_set = FALSE: the local cursors of the label functions) makes the
\* walk read through a wild pointer: it either finds the volume there (what
\* an earlier frame left on the stack, c.wild) or the step fails.
fat_dir_get_next(c) ==
    IF ~c.dir.vol_set /\ ~c.wild THEN [c EXCEPT !.r = 0]
    ELSE IF c.dir.rw_offset + 32 >= c.vol.sector_size
    THEN With([c EXCEPT !.dir.rw_offset = (@ + 32) - c.vol.sector_size,
                        !.dir.sector = u32_add(@, 1)], LAMBDA c1 :
         IF u32_ge(c1.dir.sector,
                   u32_add(fat_clust_to_sect(c1.vol, c1.dir.cluster), c1.vol.cluster_size))
         THEN With(fat_table_get(c1, c1.dir.cluster), LAMBDA g :
                   IF g.r = 0 THEN [g EXCEPT !.r = 0]
                   ELSE IF IsEoc(g.val) THEN [g EXCEPT !.r = 0]
                   ELSE [g EXCEPT !.dir.cluster = g.val,
                                  !.dir.sector = fat_clust_to_sect(g.vol, g.val),
                                  !.r = 1])
         ELSE [c1 EXCEPT !.r = 1])
    ELSE [c EXCEPT !.dir.rw_offset = @ + 32, !.r = 1]

\* A directory walk ends at the latest when every record of the device was seen.
DirTurns == (NumSectors + 1) * 16

HasBit(byte, mask) == (byte \div mask) % 2 = 1

\* attribute & ATTR_VOL_LABEL, and the record is no long-name slot
IsLabel(attribute) == HasBit(attribute, ATTR_VOL_LABEL) /\ attribute % 16 # ATTR_LFN

\* The cursor the label functions make on their stack: vol is never set.
LabelCursor(vol) ==
    [vol_set |-> FALSE, sector |-> vol.root_lba, rw_offset |-> 0,
     cluster |-> fat_sect_to_clust(vol, vol.root_lba), start_sect |-> 0, size |-> 0]

\* One turn of the while (1) loop of fat_get_vol_label.
fat_get_vol_label_turn(c) ==
    With(fat_read(c, c.dir.sector), LAMBDA c1 :
    IF c1.r = 0 THEN [c1 EXCEPT !.brk = TRUE, !.r = FSTATUS_ERROR]
    ELSE IF IsLabel(c1.vol.buffer[c1.dir.rw_offset + SFN_ATTR])
    THEN [c1 EXCEPT !.brk = TRUE, !.r = 1,
                    !.vol.label = [i \in 1..11 |->
                                      c1.vol.buffer[c1.dir.rw_offset + i - 1]]]
    ELSE With(fat_dir_get_next(c1), LAMBDA n :
              IF n.r = 0 THEN [n EXCEPT !.brk = TRUE, !.r = 0] ELSE n))

fat_get_vol_label(c) ==
    [Repeat(fat_get_vol_label_turn, [c EXCEPT !.dir = LabelCursor(c.vol)], DirTurns)
        EXCEPT !.brk = FALSE]

\* One turn of the while (1) loop of volume_set_label; loc.name holds the
\* eleven bytes the inner loop stores.
volume_set_label_turn(c) ==
    With(fat_read(c, c.dir.sector), LAMBDA c1 :
    IF c1.r = 0 THEN [c1 EXCEPT !.brk = TRUE, !.r = FSTATUS_ERROR]
    ELSE IF IsLabel(c1.vol.buffer[c1.dir.rw_offset + SFN_ATTR])
    THEN [fat_flush([buffer_store_bytes(c1, c1.dir.rw_offset, c1.loc.name)
                        EXCEPT !.vol.buffer_dirty = 1])
             EXCEPT !.brk = TRUE, !.r = 1]
    ELSE With(fat_dir_get_next(c1), LAMBDA n :
              IF n.r = 0 THEN [n EXCEPT !.brk = TRUE, !.r = 0] ELSE n))

volume_set_label(c, name, length) ==
    [Repeat(volume_set_label_turn,
            [c EXCEPT !.dir = LabelCursor(c.vol),
                      !.loc = [name |-> [i \in 1..11 |->
                                           IF i - 1 >= length THEN 32 ELSE name[i]]]],
            DirTurns)
        EXCEPT !.brk = FALSE]

-----------------------------------------------------------------------------
(* Volume registry *)

\* 1 << i on a 32-bit int
Shl1(i) == IF i = 31 THEN (-2147483647) - 1 ELSE 2 ^ i
BitIsSet(mask, i) == IF i = 31 THEN mask < 0 ELSE (mask \div (2 ^ i)) % 2 = 1

\* The last volume of the list that starts at address a.
RECURSIVE ListTail(_, _)
ListTail(vs, a) == IF vs[a].next = NULL THEN a ELSE ListTail(vs, vs[a].next)

\* fat_volume_add of the volume at address a; m is the mount in progress.
fat_volume_add(m, a) ==
    LET linked == IF m.volume_base = NULL THEN m.volumes
                  ELSE [m.volumes EXCEPT ![ListTail(m.volumes, m.volume_base)].next = a]
        vs   == [linked EXCEPT ![a].next = NULL]
        base == IF m.volume_base = NULL THEN a ELSE m.volume_base
        free == {i \in 0..31 : ~BitIsSet(m.volume_bitmask, i)}
    IN  IF free = {}
        THEN [m EXCEPT !.volumes = vs, !.volume_base = base]
        ELSE LET i == CHOOSE i \in free : \A j \in free : i <= j
             IN  [m EXCEPT !.volumes = [vs EXCEPT ![a].letter = 67 + i],
                           !.volume_base = base,
                           !.volume_bitmask = u32_add(@, Shl1(i))]

RECURSIVE volume_get_from(_, _, _)
volume_get_from(vs, a, letter) ==
    IF a = NULL THEN NULL
    ELSE IF vs[a].letter = letter THEN a
    ELSE volume_get_from(vs, vs[a].next, letter)

volume_get(vs, base, letter) == volume_get_from(vs, base, letter)

\* The volume before the first one with `letter` in the list from a on
\* (prev of the while loop of fat_volume_remove); NULL when none has it.
RECURSIVE PrevOfLetter(_, _, _)
PrevOfLetter(vs, prev, letter) ==
    IF vs[prev].next = NULL THEN NULL
    ELSE IF vs[vs[prev].next].letter = letter THEN prev
    ELSE PrevOfLetter(vs, vs[prev].next, letter)

\* volume_bitmask &= ~(1 << bit_pos), bit_pos being a u8.  A shift by 32 or
\* more is undefined: the build yields 0 (shift_wraps = FALSE) or shifts by
\* bit_pos % 32 (shift_wraps = TRUE).
ClearBit(mask, bit_pos, shift_wraps) ==
    IF bit_pos >= 32 /\ ~shift_wraps THEN mask
    ELSE IF BitIsSet(mask, bit_pos % 32) THEN u32_sub(mask, Shl1(bit_pos % 32))
    ELSE mask

\* fat_volume_remove(letter); m.r is its return value.
fat_volume_remove(m, letter, shift_wraps) ==
    IF m.volume_base = NULL THEN [m EXCEPT !.r = 0]
    ELSE IF m.volumes[m.volume_base].letter = letter
    THEN [m EXCEPT !.volume_base = m.volumes[m.volume_base].next,
                   !.volume_bitmask = ClearBit(@, (letter - 67) % 256, shift_wraps),
                   !.r = 1]
    ELSE With(PrevOfLetter(m.volumes, m.volume_base, letter), LAMBDA prev :
         IF prev = NULL THEN [m EXCEPT !.r = 0]
         ELSE [m EXCEPT !.volumes[prev].next = m.volumes[m.volumes[prev].next].next,
                        !.volume_bitmask = ClearBit(@, (letter - 67) % 256, shift_wraps),
                        !.r = 1])

\* The while loop of disk_eject from the volume at address vol on.  The loop
\* reads vol->next after dynamic_memory_free(vol): it finds the old value
\* (freed_reads_null = FALSE) or what the allocator left there, NULL.
RECURSIVE disk_eject_from(_, _, _, _, _)
disk_eject_from(m, vol, d, freed_reads_null, shift_wraps) ==
    IF vol = NULL THEN [m EXCEPT !.r = 1]
    ELSE IF m.volumes[vol].disk = d
    THEN With(fat_volume_remove(m, m.volumes[vol].letter, shift_wraps), LAMBDA m1 :
         IF m1.r = 0 THEN [m1 EXCEPT !.r = 0]
         ELSE disk_eject_from(m1,
                              IF freed_reads_null THEN NULL ELSE m1.volumes[vol].next,
                              d, freed_reads_null, shift_wraps))
    ELSE disk_eject_from(m, m.volumes[vol].next, d, freed_reads_null, shift_wraps)

\* disk_eject(d)
disk_eject(m, d, freed_reads_null, shift_wraps) ==
    disk_eject_from(m, m.volume_base, d, freed_reads_null, shift_wraps)

-----------------------------------------------------------------------------
(* Mount pipeline *)

\* int division of C, truncating; a division by zero yields 0, as the
\* divide instruction of the target does.
c_div(a, b) ==
    IF b = 0 THEN 0
    ELSE IF (a >= 0) = (b > 0) THEN (IF a >= 0 THEN a ELSE -a) \div (IF b > 0 THEN b ELSE -b)
    ELSE -((IF a >= 0 THEN a ELSE -a) \div (IF b > 0 THEN b ELSE -b))

\* fat_search taking every sector for a FAT32 boot sector.
fat_search_any(bpb) == 1

fat_search(bpb) ==
    IF fat_load16(bpb, 510) # 43605 THEN 0
    ELSE IF fat_memcmp(bpb, BPB_32_FSTYPE, FAT_STR, 3) = 0
            /\ fat_memcmp(bpb, BPB_16_FSTYPE, FAT_STR, 3) = 0 THEN 0
    ELSE
    LET root_sectors == c_div(fat_load16(bpb, BPB_ROOT_ENT_CNT) * 32
                                + (fat_load16(bpb, BPB_SECTOR_SIZE) - 1),
                              fat_load16(bpb, BPB_SECTOR_SIZE) - 1)
        fat_size == IF fat_load16(bpb, BPB_FAT_SIZE_16) # 0
                    THEN fat_load16(bpb, BPB_FAT_SIZE_16)
                    ELSE fat_load32(bpb, BPB_32_FAT_SIZE)
        tot_sect == IF fat_load16(bpb, BPB_TOT_SECT_16) # 0
                    THEN fat_load16(bpb, BPB_TOT_SECT_16)
                    ELSE fat_load32(bpb, BPB_TOT_SECT_32)
        data_sectors ==
            u32_sub(tot_sect,
                    u32_add(u32_add(fat_load16(bpb, BPB_RSVD_CNT),
                                    u32_mul(fat_size, bpb[BPB_NUM_FATS])),
                            root_sectors))
        data_clusters == IF bpb[BPB_CLUSTER_SIZE] = 0 THEN 0
                         ELSE u32_div(data_sectors, bpb[BPB_CLUSTER_SIZE])
    IN  IF u32_lt(data_clusters, 65525) THEN 0 ELSE 1

\* disk_read(disk, mount_buffer, lba, 1); disk_mount ignores its result.
mount_read(m, lba) ==
    With((m.nio + 1) \notin m.fail /\ lba \in DOMAIN m.dsk, LAMBDA ok :
         [m EXCEPT !.nio = @ + 1,
                   !.log = Append(@, [ev |-> "disk_read", lba |-> lba, ok |-> ok]),
                   !.mount_buffer = IF ok THEN m.dsk[lba] ELSE @])

\* What dynamic_memory_new hands out: a struct nothing has written yet (the
\* letter it holds is m.uletter of the mount in progress).
UninitVolume(ubuf, udirty) ==
    [letter |-> 0, disk |-> 0, sector_size |-> 0, cluster_size |-> 0,
     total_size |-> 0, info_lba |-> 0, fat_lba |-> 0, data_lba |-> 0,
     root_lba |-> 0, buffer |-> ubuf, buffer_lba |-> 0, buffer_dirty |-> udirty,
     label |-> [i \in 1..11 |-> 0], next |-> NULL]

\* mount_partition with root_lba computed before data_lba is assigned.
mount_partition_root_first(m, i, d, ubuf, udirty) ==
    With(m.partitions[i].lba, LAMBDA lba :
    IF lba = 0 THEN m
    ELSE
    With(mount_read(m, lba), LAMBDA m1 :
    With(m1.mount_buffer, LAMBDA mb :
    IF fat_search(mb) = 0 THEN m1
    ELSE
    With([UninitVolume(ubuf, udirty) EXCEPT
            !.letter = m1.uletter,
            !.sector_size = fat_load16(mb, BPB_SECTOR_SIZE),
            !.cluster_size = mb[BPB_CLUSTER_SIZE],
            !.total_size = fat_load32(mb, BPB_TOT_SECT_32),
            !.info_lba = u32_add(lba, fat_load16(mb, BPB_32_FSINFO)),
            !.fat_lba = u32_add(lba, fat_load16(mb, BPB_RSVD_CNT))], LAMBDA v0 :
    With([v0 EXCEPT
            !.root_lba = fat_clust_to_sect(v0, fat_load32(mb, BPB_32_ROOT_CLUST))], LAMBDA v1 :
    With([v1 EXCEPT
            !.data_lba = u32_add(v0.fat_lba, u32_mul(fat_load32(mb, BPB_32_FAT_SIZE),
                                                     mb[BPB_NUM_FATS])),
            !.disk = d,
            !.buffer_lba = 0], LAMBDA v2 :
    With(Len(m1.volumes) + 1, LAMBDA a :
    With(fat_volume_add([m1 EXCEPT !.volumes = Append(@, v2)], a), LAMBDA m2 :
    With(fat_get_vol_label(
             [NewCall(m2.dsk, m2.volumes[a], m2.fail, m2.shadow) EXCEPT
                 !.log = m2.log, !.nio = m2.nio, !.wild = m2.wild]), LAMBDA c1 :
         [m2 EXCEPT !.volumes[a] = c1.vol, !.dsk = c1.dsk,
                    !.log = c1.log, !.nio = c1.nio])))))))))

\* The body of the second partition loop of disk_mount, for partition i.
mount_partition(m, i, d, ubuf, udirty) ==
    With(m.partitions[i].lba, LAMBDA lba :
    IF lba = 0 THEN m
    ELSE
    With(mount_read(m, lba), LAMBDA m1 :
    With(m1.mount_buffer, LAMBDA mb :
    IF fat_search(mb) = 0 THEN m1
    ELSE
    With([UninitVolume(ubuf, udirty) EXCEPT
            !.letter = m1.uletter,
            !.sector_size = fat_load16(mb, BPB_SECTOR_SIZE),
            !.cluster_size = mb[BPB_CLUSTER_SIZE],
            !.total_size = fat_load32(mb, BPB_TOT_SECT_32),
            !.info_lba = u32_add(lba, fat_load16(mb, BPB_32_FSINFO)),
            !.fat_lba = u32_add(lba, fat_load16(mb, BPB_RSVD_CNT))], LAMBDA v0 :
    With([v0 EXCEPT
            !.data_lba = u32_add(v0.fat_lba, u32_mul(fat_load32(mb, BPB_32_FAT_SIZE),
                                                     mb[BPB_NUM_FATS]))], LAMBDA v1 :
    With([v1 EXCEPT
            !.root_lba = fat_clust_to_sect(v1, fat_load32(mb, BPB_32_ROOT_CLUST)),
            !.disk = d,
            !.buffer_lba = 0], LAMBDA v2 :
    With(Len(m1.volumes) + 1, LAMBDA a :
    With(fat_volume_add([m1 EXCEPT !.volumes = Append(@, v2)], a), LAMBDA m2 :
    With(fat_get_vol_label(
             [NewCall(m2.dsk, m2.volumes[a], m2.fail, m2.shadow) EXCEPT
                 !.log = m2.log, !.nio = m2.nio, !.wild = m2.wild]), LAMBDA c1 :
         [m2 EXCEPT !.volumes[a] = c1.vol, !.dsk = c1.dsk,
                    !.log = c1.log, !.nio = c1.nio])))))))))

RECURSIVE mount_partitions(_, _, _, _, _)
mount_partitions(m, i, d, ubuf, udirty) ==
    IF i > 4 THEN m
    ELSE mount_partitions(mount_partition(m, i, d, ubuf, udirty), i + 1, d, ubuf, udirty)

\* disk_mount(d).  present and init_ok are the answers of disk_get_status
\* and disk_initialize.
disk_mount(m, d, present, init_ok, ubuf, udirty) ==
    IF ~present THEN [m EXCEPT !.r = 0]
    ELSE IF ~init_ok THEN [m EXCEPT !.r = 0]
    ELSE
    With(mount_read(m, 0), LAMBDA m1 :
    With(m1.mount_buffer, LAMBDA mb :
    IF fat_load16(mb, MBR_BOOT_SIG) # MBR_BOOT_SIG_VALUE THEN [m1 EXCEPT !.r = 0]
    ELSE [mount_partitions(
             [m1 EXCEPT !.partitions =
                 [i \in 1..4 |->
                    [lba |-> fat_load32(mb, MBR_PARTITION + (i - 1) * MBR_PARTITION_SIZE
                                            + PAR_LBA),
                     size |-> fat_load32(mb, MBR_PARTITION + (i - 1) * MBR_PARTITION_SIZE
                                             + PAR_SIZE),
                     type |-> mb[MBR_PARTITION + (i - 1) * MBR_PARTITION_SIZE + PAR_TYPE],
                     status |-> mb[MBR_PARTITION + (i - 1) * MBR_PARTITION_SIZE
                                   + PAR_STATUS]]]],
             1, d, ubuf, udirty) EXCEPT !.r = 1]))

-----------------------------------------------------------------------------
(* Directory search and path resolution *)

\* The character of a C string at 1-based position i; the string ends with
\* a NUL.
CharAt(str, i) == IF i >= 1 /\ i <= Len(str) THEN str[i] ELSE 0

\* tmp_char -= 32 for 'a'..'z'
UpperCase(ch) == IF ch >= 97 /\ ch <= 122 THEN ch - 32 ELSE ch

\* fat_dir_sfn_cmp(buf + off, name + pos - 1, size), size being a u8; the
\* do-while loop runs once at least, and 256 times when size is 0.
fat_dir_sfn_cmp(buf, off, name, pos, size) ==
    LET n == IF size > 8 THEN 8 ELSE IF size = 0 THEN 256 ELSE size
    IN  IF \A j \in 0..(n - 1) :
              /\ off + j < SectorBytes
              /\ UpperCase(CharAt(name, pos + j)) = buf[off + j]
        THEN 1 ELSE 0

lfn_offsets == <<1, 3, 5, 7, 9, 14, 16, 18, 20, 22, 24, 28, 30>>

\* fat_dir_lfn_cmp(buf + off, name + pos - 1, size)
fat_dir_lfn_cmp(buf, off, name, pos) ==
    With((13 * (((buf[off + LFN_SEQ] % (LFN_SEQ_MSK + 1)) + 255) % 256)) % 256,
         LAMBDA name_off :
    With({i \in 0..12 : buf[off + lfn_offsets[i + 1]] = 0
                        \/ buf[off + lfn_offsets[i + 1]] = 255}, LAMBDA stops :
    With(IF stops = {} THEN 13 ELSE CHOOSE i \in stops : \A j \in stops : i <= j,
         LAMBDA last :
         IF \A i \in 0..(last - 1) :
               buf[off + lfn_offsets[i + 1]] = CharAt(name, pos + name_off + i)
         THEN 1 ELSE 0)))

\* fat_dir_sfn_crc with a shift in place of the rotation: bit 0 of the
\* checksum is dropped instead of carried to bit 7.
RECURSIVE sfn_crc_shift_only(_, _, _, _)
sfn_crc_shift_only(buf, off, i, crc) ==
    IF i = 11 THEN crc
    ELSE sfn_crc_shift_only(buf, off, i + 1, ((crc \div 2) + buf[off + i]) % 256)

\* The do-while loop of fat_dir_sfn_crc from byte i of the name on.
RECURSIVE sfn_crc_from(_, _, _, _)
sfn_crc_from(buf, off, i, crc) ==
    IF i = 11 THEN crc
    ELSE sfn_crc_from(buf, off, i + 1,
                      (((crc % 2) * 128) + (crc \div 2) + buf[off + i]) % 256)

fat_dir_sfn_crc(buf, off) == sfn_crc_from(buf, off, 0, 0)

\* One turn of the while (1) loop of fat_dir_search; loc holds name, pos,
\* size and the locals lfn_crc, lfn_match and match.  r is the value
\* returned when the turn ends the function.
fat_dir_search_turn(c) ==
    With(fat_read(c, c.dir.sector), LAMBDA c1 :
    IF c1.r = 0 THEN [c1 EXCEPT !.brk = TRUE, !.r = 0]
    ELSE
    With(c1.vol.buffer, LAMBDA curr_buff :
    With(c1.dir.rw_offset, LAMBDA rw_tmp :
    With(curr_buff[rw_tmp], LAMBDA sfn_tmp :
    IF sfn_tmp = 0 THEN [c1 EXCEPT !.brk = TRUE, !.r = 0]
    ELSE
    With(IF sfn_tmp = 5 \/ sfn_tmp = 229 THEN c1
         ELSE IF curr_buff[rw_tmp + SFN_ATTR] % 16 = ATTR_LFN
         THEN [c1 EXCEPT
                 !.loc.lfn_match =
                     IF fat_dir_lfn_cmp(curr_buff, rw_tmp, c1.loc.name, c1.loc.pos) = 0
                     THEN 0 ELSE @,
                 !.loc.lfn_crc = curr_buff[rw_tmp + LFN_CRC]]
         ELSE IF (IF c1.loc.lfn_crc # 0 /\ c1.loc.lfn_match # 0
                  THEN IF c1.loc.lfn_crc = fat_dir_sfn_crc(curr_buff, rw_tmp) THEN 1 ELSE 0
                  ELSE fat_dir_sfn_cmp(curr_buff, rw_tmp, c1.loc.name, c1.loc.pos,
                                       c1.loc.size % 256)) = 1
         THEN With(FromHalves(fat_load16(curr_buff, rw_tmp + SFN_CLUSTH),
                              fat_load16(curr_buff, rw_tmp + SFN_CLUSTL)), LAMBDA cluster :
                   [c1 EXCEPT
                      !.dir.cluster = cluster,
                      !.dir.sector = fat_clust_to_sect(c1.vol, cluster),
                      !.dir.start_sect = fat_clust_to_sect(c1.vol, cluster),
                      !.dir.size = fat_load32(curr_buff, rw_tmp + SFN_FILE_SIZE),
                      !.dir.rw_offset = 0,
                      !.brk = TRUE, !.r = 1])
         ELSE [c1 EXCEPT !.loc.lfn_match = 1, !.loc.lfn_crc = 0], LAMBDA c2 :
         IF c2.brk THEN c2
         ELSE With(fat_dir_get_next(c2), LAMBDA n :
                   IF n.r = 0 THEN [n EXCEPT !.brk = TRUE, !.r = 0] ELSE n))))))

\* fat_dir_search(&dir, name + pos - 1, size); lfn_match starts with the
\* value `ulfn` its stack slot happens to hold.
fat_dir_search(c, name, pos, size, ulfn) ==
    With(Repeat(fat_dir_search_turn,
                [c EXCEPT
                   !.dir = IF c.dir.start_sect # c.dir.sector
                           THEN [@ EXCEPT !.sector = c.dir.start_sect,
                                          !.cluster = fat_sect_to_clust(c.vol,
                                                                        c.dir.start_sect),
                                          !.rw_offset = 0]
                           ELSE @,
                   !.loc = [name |-> name, pos |-> pos, size |-> size,
                            lfn_crc |-> 0, lfn_match |-> ulfn]],
                DirTurns), LAMBDA c1 :
         IF c1.brk THEN [c1 EXCEPT !.brk = FALSE, !.loc = c.loc]
         ELSE [c1 EXCEPT !.r = 0, !.loc = c.loc])

\* The first position at or after p where the string has one of `stops`
\* (the terminating NUL is always one).
RECURSIVE ScanTo(_, _, _)
ScanTo(str, p, stops) ==
    IF CharAt(str, p) = 0 \/ CharAt(str, p) \in stops THEN p
    ELSE ScanTo(str, p + 1, stops)

\* One turn of the while (1) loop of fat_follow_path; loc.p is `path`.
fat_follow_path_turn(c) ==
    With(ScanTo(c.loc.path, c.loc.p, {47}) + 1, LAMBDA frag :
    With(ScanTo(c.loc.path, frag, {47, 46}), LAMBDA stop :
    IF CharAt(c.loc.path, frag - 1) = 0 \/ CharAt(c.loc.path, frag) = 0
    THEN [c EXCEPT !.brk = TRUE, !.r = FSTATUS_OK]
    ELSE IF CharAt(c.loc.path, stop) = 46
    THEN [c EXCEPT !.brk = TRUE, !.r = FSTATUS_OK]
    ELSE With(fat_dir_search([c EXCEPT !.loc.p = frag], c.loc.path, frag,
                             (stop - frag) % 256, c.loc.ulfn), LAMBDA s :
              IF s.r = 0 THEN [s EXCEPT !.brk = TRUE, !.r = 0] ELSE s)))

\* fat_follow_path(&dir, path, length) on the registry (vs, base).  The
\* volume found becomes the call's volume; dir.vol is its address.
fat_follow_path(c, vs, base, path, length, ulfn) ==
    With(volume_get(vs, base, CharAt(path, 1)), LAMBDA a :
    IF a = NULL THEN [c EXCEPT !.r = FSTATUS_NO_VOLUME]
    ELSE
    With([c EXCEPT
            !.vol = vs[a],
            !.dir = [vol_set |-> TRUE, vol |-> a,
                     sector |-> vs[a].root_lba, start_sect |-> vs[a].root_lba,
                     cluster |-> fat_clust_to_sect(vs[a], vs[a].root_lba),
                     rw_offset |-> 0, size |-> c.dir.size]], LAMBDA c0 :
    IF CharAt(path, 2) # 58 THEN [c0 EXCEPT !.r = FSTATUS_PATH_ERR]
    ELSE IF CharAt(path, 3) # 47 THEN [c0 EXCEPT !.r = FSTATUS_PATH_ERR]
    ELSE [Repeat(fat_follow_path_turn,
                 [c0 EXCEPT !.loc = [path |-> path, p |-> 3, ulfn |-> ulfn]],
                 Len(path) + 1)
             EXCEPT !.brk = FALSE, !.loc = <<>>]))

-----------------------------------------------------------------------------
(* File cursor *)

\* The position the backwards scan of fat_file_open stops at: the first
\* '/' or NUL at or before p.
RECURSIVE ScanBack(_, _)
ScanBack(str, p) ==
    IF CharAt(str, p) = 47 \/ CharAt(str, p) = 0 THEN p ELSE ScanBack(str, p - 1)

\* fat_file_open(file, path, length).  frag_size is never initialised and
\* starts with the value `ufrag`; dir.size is assigned by fat_dir_search
\* before it is read.
fat_file_open(c, vs, base, path, length, ufrag, ulfn) ==
    With(fat_follow_path([c EXCEPT !.dir = [size |-> 0]], vs, base, path, length, ulfn),
         LAMBDA c0 :
    IF c0.r # FSTATUS_OK THEN c0
    ELSE IF CharAt(path, length) = 0 THEN [c0 EXCEPT !.r = FSTATUS_PATH_ERR]
    ELSE
    With(IF CharAt(path, length) = 47 THEN length - 1 ELSE length, LAMBDA last :
    With(ScanBack(path, last), LAMBDA char_ptr :
    IF CharAt(path, char_ptr) = 0 THEN [c0 EXCEPT !.r = FSTATUS_PATH_ERR]
    ELSE With(fat_dir_search(c0, path, char_ptr + 1,
                             (ufrag + (last - char_ptr)) % 256, ulfn), LAMBDA s :
              IF s.r = 0 THEN [s EXCEPT !.r = FSTATUS_PATH_ERR]
              ELSE [s EXCEPT !.file.sector = s.dir.sector,
                             !.file.start_sect = s.dir.sector,
                             !.file.cluster = s.dir.cluster,
                             !.file.rw_offset = 0,
                             !.file.vol = s.dir.vol,
                             !.file.size = s.dir.size,
                             !.r = FSTATUS_OK]))))

\* fat_file_addr_resolve stepping to the sector that follows on the device,
\* without reading the chain.
fat_file_addr_resolve_next_sector(c) ==
    IF u32_ge(c.file.rw_offset, c.vol.sector_size)
    THEN [c EXCEPT !.file.rw_offset = u32_sub(@, c.vol.sector_size),
                   !.file.sector = u32_add(@, 1),
                   !.r = 1]
    ELSE [c EXCEPT !.r = 1]

fat_file_addr_resolve(c) ==
    IF u32_ge(c.file.rw_offset, c.vol.sector_size)
    THEN With([c EXCEPT !.file.rw_offset = u32_sub(@, c.vol.sector_size),
                        !.file.sector = u32_add(@, 1)], LAMBDA c1 :
         IF u32_ge(c1.file.sector,
                   u32_add(fat_clust_to_sect(c1.vol, c1.file.cluster),
                           c1.vol.cluster_size))
         THEN With(fat_table_get(c1, c1.file.cluster), LAMBDA g :
                   IF g.r = 0 THEN [g EXCEPT !.r = 0]
                   ELSE IF IsEoc(g.val) THEN [g EXCEPT !.r = 0]
                   ELSE [g EXCEPT !.file.cluster = g.val,
                                  !.file.sector = fat_clust_to_sect(g.vol, g.val),
                                  !.r = 1])
         ELSE [c1 EXCEPT !.r = 1])
    ELSE [c EXCEPT !.r = 1]

\* One turn of the while (count--) loop of fat_file_read; loc.status is *status,
\* out the bytes stored through `buffer`.
fat_file_read_turn(c) ==
    With(IF u32_ge(c.file.rw_offset, c.loc.sector_size)
         THEN With(fat_file_addr_resolve(c), LAMBDA a : fat_read(a, a.file.sector))
         ELSE [c EXCEPT !.r = 1], LAMBDA c1 :
    IF c1.r = 0 THEN [c1 EXCEPT !.brk = TRUE, !.loc.returned = TRUE]
    ELSE [c1 EXCEPT !.out = Append(@, c1.vol.buffer[c1.file.rw_offset]),
                    !.file.rw_offset = u32_add(@, 1),
                    !.file.glob_offset = u32_add(@, 1),
                    !.loc.status = u32_add(@, 1),
                    !.brk = u32_ge(u32_add(c1.file.glob_offset, 1), c1.loc.file_size)])

fat_file_read(c, count) ==
    With(fat_read([c EXCEPT !.out = <<>>,
                            !.loc = [sector_size |-> c.vol.sector_size % 65536,
                                     file_size |-> c.file.size, returned |-> FALSE,
                                     status |-> 0]],
                  c.file.sector), LAMBDA c1 :
    IF c1.r = 0 THEN [c1 EXCEPT !.r = FSTATUS_ERROR, !.val = 0, !.loc = <<>>]
    ELSE With(Repeat(fat_file_read_turn, c1, count), LAMBDA c2 :
              [c2 EXCEPT !.brk = FALSE, !.loc = <<>>, !.val = c2.loc.status,
                         !.r = IF c2.loc.returned THEN FSTATUS_ERROR ELSE FSTATUS_OK]))

\* One turn of the while (cluster_offset) loop of fat_file_jump.
fat_file_jump_turn(c) ==
    With(fat_table_get(c, c.file.cluster), LAMBDA g :
    IF g.r = 0 THEN [g EXCEPT !.brk = TRUE, !.loc.returned = TRUE, !.r = FSTATUS_ERROR]
    ELSE IF IsEoc(g.val) THEN [g EXCEPT !.brk = TRUE, !.loc.returned = TRUE, !.r = 0]
    ELSE [g EXCEPT !.file.cluster = g.val])

fat_file_jump(c, offset) ==
    With(u32_div(offset, c.vol.sector_size), LAMBDA sectors :
    With(Repeat(fat_file_jump_turn,
                [c EXCEPT !.file.cluster = fat_sect_to_clust(c.vol, c.file.start_sect),
                          !.loc = [returned |-> FALSE]],
                u32_div(sectors, c.vol.cluster_size)), LAMBDA c1 :
    IF c1.loc.returned THEN [c1 EXCEPT !.brk = FALSE, !.loc = <<>>]
    ELSE [c1 EXCEPT
            !.file.sector = u32_add(fat_clust_to_sect(c1.vol, c1.file.cluster),
                                    u32_mod(sectors, c1.vol.cluster_size)),
            !.file.rw_offset = u32_mod(offset, c1.vol.sector_size),
            !.file.glob_offset = offset,
            !.brk = FALSE, !.loc = <<>>, !.r = FSTATUS_OK]))

-----------------------------------------------------------------------------
(* The driver's state and the calls made on it *)

DISK_SD_CARD == "DISK_SD_CARD"

\* The block-device calls of a handler that the device fails, by index: none,
\* or one of the first MaxFailAt.
FailSets == {{}} \cup {{k} : k \in 1..MaxFailAt}
MountFailSets == {{}} \cup {{k} : k \in 1..MaxMountFailAt}

\* The handler issued every call the device was to fail.
Issued(fail, nio) == \A k \in fail : k <= nio

\* The FAT contents the allocator's behaviours start from, as entries that
\* differ from "in use", each with the FSInfo next_free hint: two free entries
\* in one FAT sector (hint at or before the first), two free entries in
\* different FAT sectors, a used entry whose low seven bits are zero before
\* two free ones, a free entry with reserved high bits set, a single free
\* entry, and no free entry.
FatCases ==
    { [over |-> (10 :> 0) @@ (17 :> 0),               next_free |-> 10],
      [over |-> (10 :> 0) @@ (17 :> 0),               next_free |-> 7],
      [over |-> (127 :> 0) @@ (130 :> 0),             next_free |-> 100],
      [over |-> (10 :> 0) @@ (12 :> 128) @@ (17 :> 0) @@ (20 :> 0), next_free |-> 11],
      [over |-> (10 :> 268435456) @@ (17 :> 0) @@ (20 :> 0), next_free |-> 10],
      [over |-> (130 :> 0),                           next_free |-> 2],
      [over |-> <<>>,                                 next_free |-> 2] }

\* The size of the file on the image of the cache behaviours.
CacheFileSize == ClusterBytes + 476

UninitFile(g) ==
    [vol |-> NULL, start_sect |-> 0, sector |-> 0, cluster |-> 0,
     rw_offset |-> 0, glob_offset |-> g, size |-> 0]

\* A struct dir_s nothing was opened on.
UninitDir ==
    [vol_set |-> FALSE, vol |-> NULL, sector |-> 0, start_sect |-> 0, cluster |-> 0,
     rw_offset |-> 0, size |-> 0]

InitCommon ==
    /\ dir = UninitDir
    /\ volumes = <<>>
    /\ volume_base = NULL
    /\ volume_bitmask = 0
    /\ mount_buffer = Zero512
    /\ out_buf = <<>>
    /\ ret = [op |-> "none", r |-> 1]
    /\ io_log = <<>>
    /\ written = <<>>
    /\ steps = 0

\* The FAT of the cache behaviours: free entries in both FAT sectors.
CacheFat == [over |-> (10 :> 0) @@ (130 :> 0), next_free |-> 10]

Init ==
    /\ disk = [d \in {DISK_SD_CARD} |->
                  DiskImage(CacheFileSize, CacheFat.over, CacheFat.next_free)]
    /\ file = UninitFile(0)
    /\ InitCommon

\* disk_mount(DISK_SD_CARD), the device failing the calls of one of `fails`.
MountWith(fails, presents, inits) ==
    /\ steps < MaxSteps
    /\ volume_base = NULL
    /\ \E fail \in fails, present \in presents, init_ok \in inits,
          ubuf \in UninitSectors, udirty \in {0, 1} :
          LET m0 == [dsk |-> disk[DISK_SD_CARD], volumes |-> volumes,
                     volume_base |-> volume_base, volume_bitmask |-> volume_bitmask,
                     mount_buffer |-> mount_buffer, fail |-> fail, shadow |-> written,
                     log |-> <<>>, nio |-> 0, r |-> 1, wild |-> FALSE,
                     partitions |-> <<>>, uletter |-> 0]
              m  == disk_mount(m0, DISK_SD_CARD, present, init_ok, ubuf, udirty)
          IN  /\ Issued(fail, m.nio)
              /\ disk' = [disk EXCEPT ![DISK_SD_CARD] = m.dsk]
              /\ volumes' = m.volumes
              /\ volume_base' = m.volume_base
              /\ volume_bitmask' = m.volume_bitmask
              /\ mount_buffer' = m.mount_buffer
              /\ io_log' = m.log
              /\ ret' = [op |-> "disk_mount", r |-> m.r]
    /\ steps' = steps + 1
    /\ UNCHANGED <<file, out_buf, dir, written>>

Mount == MountWith(MountFailSets, BOOLEAN, BOOLEAN)

\* The call state of a handler that works on the mounted volume.
Call(fail) == NewCall(disk[DISK_SD_CARD], volumes[volume_base], fail, written)

\* The handler's effects on the volume, the device and the history.
Commit(c, result) ==
    /\ Issued(c.fail, c.nio)
    /\ disk' = [disk EXCEPT ![DISK_SD_CARD] = c.dsk]
    /\ volumes' = [volumes EXCEPT ![volume_base] = c.vol]
    /\ written' = c.shadow
    /\ io_log' = c.log
    /\ ret' = result
    /\ steps' = steps + 1
    /\ UNCHANGED <<volume_base, volume_bitmask, mount_buffer>>

Mounted == volume_base # NULL /\ steps < MaxSteps

ReadLbas == {0, FatLba, DataLba, NumSectors}

FatRead ==
    /\ Mounted
    /\ \E fail \in FailSets, lba \in ReadLbas :
          LET c == fat_read(Call(fail), lba)
          IN  Commit(c, [op |-> "fat_read", lba |-> lba, r |-> c.r])
    /\ UNCHANGED <<file, out_buf, dir>>

FatFlush ==
    /\ Mounted
    /\ \E fail \in FailSets :
          LET c == fat_flush(Call(fail))
          IN  Commit(c, [op |-> "fat_flush", r |-> c.r])
    /\ UNCHANGED <<file, out_buf, dir>>

SetClusters == {3, 130}
SetEntries == {0}

FatTableSet ==
    /\ Mounted
    /\ \E fail \in FailSets, cluster \in SetClusters, entry \in SetEntries :
          LET c == fat_table_set(Call(fail), cluster, entry)
          IN  Commit(c, [op |-> "fat_table_set", cluster |-> cluster,
                         entry |-> entry, r |-> c.r])
    /\ UNCHANGED <<file, out_buf, dir>>

FatTableGet ==
    /\ Mounted
    /\ \E fail \in FailSets, cluster \in SetClusters :
          LET c == fat_table_get(Call(fail), cluster)
          IN  Commit(c, [op |-> "fat_table_get", cluster |-> cluster,
                         r |-> c.r, val |-> c.val])
    /\ UNCHANGED <<file, out_buf, dir>>

FatGetCluster ==
    /\ Mounted
    /\ \E fail \in FailSets, undef \in {0, 1} :
          LET c == fat_get_cluster(Call(fail), undef)
          IN  Commit(c, [op |-> "fat_get_cluster", r |-> c.r, done |-> c.loc.done,
                         cluster |-> c.val])
    /\ UNCHANGED <<file, out_buf, dir>>

\* "NEW"
NewLabel == <<78, 69, 87>>

VolumeSetLabel ==
    /\ Mounted
    /\ \E fail \in FailSets, wild \in BOOLEAN :
          LET c == volume_set_label([Call(fail) EXCEPT !.wild = wild], NewLabel, 3)
          IN  Commit(c, [op |-> "volume_set_label", r |-> c.r])
    /\ UNCHANGED <<file, out_buf, dir>>

Next ==
    \/ Mount
    \/ FatRead
    \/ FatFlush
    \/ FatTableSet
    \/ FatTableGet
    \/ FatGetCluster
    \/ VolumeSetLabel

Spec == Init /\ [][Next]_vars

\* The allocator's behaviours: every FAT of FatCases, mounted, then allocated
\* from and written to.
InitAlloc ==
    /\ \E fc \in FatCases :
          disk = [d \in {DISK_SD_CARD} |->
                     DiskImage(CacheFileSize, fc.over, fc.next_free)]
    /\ file = UninitFile(0)
    /\ InitCommon

NextAlloc ==
    \/ Mount
    \/ FatGetCluster
    \/ FatTableSet

SpecAlloc == InitAlloc /\ [][NextAlloc]_vars

\* "C:/datafile.bin", "C:/missing.bin" and "D:/datafile.bin"
PathOfFile == <<67, 58, 47, 100, 97, 116, 97, 102, 105, 108, 101, 46, 98, 105, 110>>
PathMissing == <<67, 58, 47, 109, 105, 115, 115, 105, 110, 103, 46, 98, 105, 110>>
PathOtherVolume == <<68, 58, 47, 100, 97, 116, 97, 102, 105, 108, 101, 46, 98, 105, 110>>
Paths == {PathOfFile, PathMissing, PathOtherVolume}

\* Values the uninitialised locals start with: frag_size of fat_file_open
\* and lfn_match of fat_dir_search.
UninitLocals == {[frag_size |-> 0, lfn_match |-> 0],
                 [frag_size |-> 250, lfn_match |-> 1]}

\* The block-device calls that fail in a call on a file cursor: none, or the
\* first one.
FileFailSets == {{}, {1}}

\* Calls made in one behaviour of the file cursor.
MaxFileSteps == 4

\* The file sizes of the images: empty, within a sector, exactly one
\* cluster, and a cluster and a part of a second one.
TwoClusterFileSize == ClusterBytes + 8
FileSizes == {0, 100, ClusterBytes, TwoClusterFileSize}

\* Values the caller's uninitialised file_s holds for glob_offset.
UninitOffsets == {0, 7}

InitFile ==
    /\ \E size \in FileSizes :
          disk = [d \in {DISK_SD_CARD} |-> DiskImage(size, <<>>, 2)]
    /\ \E g \in UninitOffsets : file = UninitFile(g)
    /\ InitCommon

\* disk_mount(DISK_SD_CARD) on a device that is present and does not fail.
FileMount == MountWith({{}}, {TRUE}, {TRUE})

\* The effects of a call on a file cursor.
FileCommit(c, result) ==
    /\ Issued(c.fail, c.nio)
    /\ disk' = [disk EXCEPT ![DISK_SD_CARD] = c.dsk]
    /\ volumes' = IF c.file.vol # NULL THEN [volumes EXCEPT ![c.file.vol] = c.vol]
                  ELSE volumes
    /\ file' = c.file
    /\ written' = c.shadow
    /\ io_log' = c.log
    /\ ret' = result
    /\ steps' = steps + 1
    /\ UNCHANGED <<volume_base, volume_bitmask, mount_buffer>>

\* The call state of a handler that is given the file cursor.
FileCall(fail) ==
    [NewCall(disk[DISK_SD_CARD],
             IF file.vol # NULL THEN volumes[file.vol] ELSE <<>>, fail, written)
        EXCEPT !.file = file]

FileOpen ==
    /\ steps < MaxFileSteps
    /\ \E fail \in FileFailSets, path \in Paths, u \in UninitLocals :
          LET c == fat_file_open(FileCall(fail), volumes, volume_base, path, Len(path),
                                 u.frag_size, u.lfn_match)
          IN  /\ FileCommit([c EXCEPT !.file.vol = IF c.r = FSTATUS_OK THEN @ ELSE file.vol,
                                      !.vol = IF c.r = FSTATUS_OK \/ file.vol = NULL
                                              THEN @ ELSE volumes[file.vol]],
                            [op |-> "fat_file_open", path |-> path, r |-> c.r])
    /\ UNCHANGED <<out_buf, dir>>

\* The offsets jumped to: the start, inside the last sector of the first
\* cluster, the cluster boundary, the end of the file and the byte after it.
JumpOffsets == {0, 1000, ClusterBytes, file.size, file.size + 1}

FileJump ==
    /\ steps < MaxFileSteps
    /\ file.vol # NULL
    /\ \E fail \in FileFailSets, offset \in JumpOffsets :
          LET c == fat_file_jump(FileCall(fail), offset)
          IN  FileCommit(c, [op |-> "fat_file_jump", offset |-> offset, r |-> c.r])
    /\ UNCHANGED <<out_buf, dir>>

\* The counts read: nothing, one byte, more than a small file holds, and
\* what is left of the file.
ReadCounts ==
    {0, 1, 200} \cup (IF file.glob_offset <= file.size
                      THEN {file.size - file.glob_offset} ELSE {})

FileRead ==
    /\ steps < MaxFileSteps
    /\ file.vol # NULL
    /\ \E fail \in FileFailSets, count \in ReadCounts :
          LET c == fat_file_read(FileCall(fail), count)
          IN  /\ FileCommit(c, [op |-> "fat_file_read", count |-> count, r |-> c.r,
                                status |-> c.val, g |-> file.glob_offset])
              /\ out_buf' = c.out
    /\ UNCHANGED dir

NextFile ==
    \/ FileMount
    \/ FileOpen
    \/ FileJump
    \/ FileRead

SpecFile == InitFile /\ [][NextFile]_vars

-----------------------------------------------------------------------------
(* Sector cache: properties *)

\* The mounted volume.
Vol == volumes[volume_base]

\* The bytes the driver most recently wrote to LBA l, or the bytes stored on
\* the device at l if the driver never wrote l.
LastWritten(l) ==
    IF l \in DOMAIN written THEN written[l] ELSE disk[DISK_SD_CARD][l]

\* C1: whenever fat_read(vol, L) returns success, the 512 bytes in
\* vol->buffer equal the bytes the driver most recently wrote to LBA L, or
\* the bytes stored on disk at L if the driver never wrote L.
C1_ReadYourWrites ==
    (ret.op = "fat_read" /\ ret.r = 1) => Vol.buffer = LastWritten(ret.lba)

\* Event i of the last call's log is a reload of the cache with the buffer dirty.
DirtyReload(i) ==
    /\ i \in DOMAIN io_log
    /\ io_log[i].ev = "reload"
    /\ io_log[i].dirty # 0

\* C2: whenever fat_read replaces the cached sector with a different LBA
\* while buffer_dirty is set, a disk_write of the buffer to the old
\* buffer_lba happens, and it succeeds before any disk_read of the new LBA:
\* no reload overwrites modified buffer contents that were not written.
C2_FlushBeforeReload ==
    \A i \in DOMAIN io_log :
        DirtyReload(i) =>
            /\ i + 1 \in DOMAIN io_log
            /\ io_log[i + 1].ev = "disk_write"
            /\ io_log[i + 1].lba = io_log[i].old_lba
            /\ io_log[i + 1].data = io_log[i].buffer
            /\ \/ io_log[i + 1].ok
               \/ i + 2 \notin DOMAIN io_log
               \/ io_log[i + 2].ev # "disk_read"

\* C2's case: a dirty buffer was written back and the new sector then read.
C2_Witness ==
    \E i \in DOMAIN io_log :
        /\ DirtyReload(i)
        /\ i + 2 \in DOMAIN io_log
        /\ io_log[i + 1].ev = "disk_write" /\ io_log[i + 1].ok
        /\ io_log[i + 2].ev = "disk_read" /\ io_log[i + 2].ok
        /\ io_log[i + 2].lba = io_log[i].lba

\* Some block-device call of the last handler failed.
DeviceFailed == \E i \in DOMAIN io_log : io_log[i].ev # "reload" /\ ~io_log[i].ok

\* The last handler was a call of the sector cache.
CacheCall(op) == op \in {"fat_read", "fat_flush"}

\* C3 as stated: when a block-device read or write fails inside fat_read or
\* fat_flush, the call returns failure and the buffer bytes, buffer_lba and
\* buffer_dirty are the same as before the call.
C3_FailureLeavesCacheUnchanged ==
    [][(CacheCall(ret'.op) /\ DeviceFailed')
          => /\ ret'.r = 0
             /\ Vol'.buffer = Vol.buffer
             /\ Vol'.buffer_lba = Vol.buffer_lba
             /\ Vol'.buffer_dirty = Vol.buffer_dirty]_vars

\* The last call wrote the buffer back and then failed to read.
WroteThenReadFailed ==
    \E i \in DOMAIN io_log :
        /\ i + 1 \in DOMAIN io_log
        /\ io_log[i].ev = "disk_write" /\ io_log[i].ok
        /\ io_log[i + 1].ev = "disk_read" /\ ~io_log[i + 1].ok

\* C3, amended: when a block-device read or write fails inside fat_read or
\* fat_flush, the call returns failure and the buffer bytes and buffer_lba
\* are the same as before the call; buffer_dirty is the same as before the
\* call too (a failed write leaves it set), except that fat_read clears it
\* when its write-back succeeded and its disk read then failed.
C3_FailureLeavesCacheUnchangedButDirty ==
    [][(CacheCall(ret'.op) /\ DeviceFailed')
          => /\ ret'.r = 0
             /\ Vol'.buffer = Vol.buffer
             /\ Vol'.buffer_lba = Vol.buffer_lba
             /\ IF WroteThenReadFailed'
                THEN Vol'.buffer_dirty = 0
                ELSE Vol'.buffer_dirty = Vol.buffer_dirty]_vars

\* C3's exception happens: a call of the cache wrote the buffer back, failed
\* to read and returned failure.
C3_Witness ==
    /\ CacheCall(ret.op)
    /\ ret.r = 0
    /\ WroteThenReadFailed

\* The FAT entry of a cluster as stored on the device.
DiskFatEntry(cluster) ==
    fat_load32(disk[DISK_SD_CARD][FatLba + (cluster \div 128)], (cluster % 128) * 4)

\* C4: whenever fat_table_set(vol, cluster, entry) or fat_get_cluster returns
\* success, the volume cache is clean and the FAT sector (the FSInfo sector)
\* on the device holds the updated value, whatever the block-device calls
\* did.
C4_WriteThrough ==
    /\ (ret.op = "fat_table_set" /\ ret.r # 0)
          => /\ Vol.buffer_dirty = 0
             /\ DiskFatEntry(ret.cluster) = ret.entry
    /\ (ret.op = "fat_get_cluster" /\ ret.done /\ ret.r # 0)
          => /\ Vol.buffer_dirty = 0
             /\ disk[DISK_SD_CARD][InfoLba] = LastWritten(InfoLba)

\* C5: if a disk_read or disk_write issued during fat_table_set,
\* volume_set_label or disk_mount fails, the operation returns a failure
\* status and does not report success.
C5_FailurePropagates ==
    (ret.op \in {"fat_table_set", "volume_set_label", "disk_mount"} /\ DeviceFailed)
        => ret.r = 0

-----------------------------------------------------------------------------
(* Free-cluster allocator: properties *)

\* Sector lba as the volume sees it: the cached bytes if the cache holds it,
\* the device's otherwise.
SectorIn(vol, dsk, lba) == IF vol.buffer_lba = lba THEN vol.buffer ELSE dsk[lba]

\* The FAT entry of cluster k as the volume sees it.
FatEntryIn(vol, dsk, k) ==
    fat_load32(SectorIn(vol, dsk, vol.fat_lba + (k \div 128)), (k % 128) * 4)

\* The clusters that have an entry in the FAT.
FatClusters == 0..(Layout.fat_size * 128 - 1)

\* fat_get_cluster ran to its end in the last step.
Allocated == ret.op = "fat_get_cluster" /\ ret.done

\* C6: for every cluster c returned by fat_get_cluster, the FAT entry of c
\* had its low 7 bits zero immediately before the allocation, after the
\* allocation it equals 0x0FFFFFFF, and no other FAT entry is changed by the
\* call.
C6_AllocatedEntry ==
    [][Allocated' =>
          LET c == ret'.cluster
              before == disk[DISK_SD_CARD]
              after  == disk'[DISK_SD_CARD]
          IN  /\ FatEntryIn(Vol, before, c) % 128 = 0
              /\ FatEntryIn(Vol', after, c) = EOC_MARK
              /\ \A k \in FatClusters \ {c} :
                     FatEntryIn(Vol', after, k) = FatEntryIn(Vol, before, k)]_vars

\* C6's case: a cluster of the FAT was allocated.
C6_Witness == Allocated /\ ret.cluster \in FatClusters

\* An entry whose 28 significant bits are zero: a free cluster.
IsFree(entry) == entry % 268435456 = 0

\* The free clusters at or after cluster n, as the volume sees the FAT.
FreeFrom(vol, dsk, n) ==
    {k \in FatClusters : k >= n /\ IsFree(FatEntryIn(vol, dsk, k))}

\* The clusters at or after n whose entry has its low 7 bits zero.
AvailableFrom(vol, dsk, n) ==
    {k \in FatClusters : k >= n /\ EntryAvailable(FatEntryIn(vol, dsk, k))}

Min(S) == CHOOSE k \in S : \A j \in S : k <= j

\* The FSInfo fields as the volume sees them.
InfoNextFree(vol, dsk) == fat_load32(SectorIn(vol, dsk, vol.info_lba), INFO_CLUST_NEXT_FREE)
InfoFreeCount(vol, dsk) == fat_load32(SectorIn(vol, dsk, vol.info_lba), INFO_CLUST_CNT)

\* The hint update of an allocation, for entries picked by pick(vol, dsk, n):
\* with two picked entries at or after next_free, the first is returned, the
\* second becomes next_free, and free_count goes down by one.
HintUpdate(pick(_, _, _)) ==
    LET before == disk[DISK_SD_CARD]
        after  == disk'[DISK_SD_CARD]
        n      == InfoNextFree(Vol, before)
        first  == Min(pick(Vol, before, n))
    IN  (/\ n \in FatClusters
         /\ pick(Vol, before, n) # {}
         /\ pick(Vol, before, first + 1) # {})
        => /\ ret'.cluster = first
           /\ InfoNextFree(Vol', after) = Min(pick(Vol, before, first + 1))
           /\ InfoFreeCount(Vol', after) = u32_sub(InfoFreeCount(Vol, before), 1)

\* C7: fat_get_cluster returns the first free cluster at or after FSInfo
\* next_free, sets next_free to the next free cluster after the allocated
\* one, and sets free_count to its previous value minus 1, also when the
\* two free entries lie in different FAT sectors.
C7_HintUpdate == [][Allocated' => HintUpdate(FreeFrom)]_vars

\* The same with "free" read as the allocator tests it (low 7 bits zero).
AllocatorHintUpdate == [][Allocated' => HintUpdate(AvailableFrom)]_vars

-----------------------------------------------------------------------------
(* Directory cursor *)

\* fat32.h is not part of src/: the offsets of the time stamps of a short-name
\* record and the directory attribute, as the on-disk format has them.
SFN_CTIME_TH == 13
SFN_CTIME == 14
SFN_CDATE == 16
SFN_ADATE == 18
SFN_WTIME == 22
SFN_WDATE == 24
ATTR_DIR == 16

\* fat_dir_open(dir, path, length)
fat_dir_open(c, vs, base, path, length, ulfn) ==
    fat_follow_path(c, vs, base, path, length, ulfn)

\* A struct info_s nothing was read into; name maps the indices written so
\* far to their characters.
UninitInfo ==
    [name |-> <<>>, name_length |-> 0, attribute |-> 0, c_time_tenth |-> 0,
     c_time |-> 0, c_date |-> 0, w_time |-> 0, w_date |-> 0, a_date |-> 0, size |-> 0]

\* info->name after the for loop of the LFN case has copied the characters
\* i..12 of the record at off.
RECURSIVE lfn_copy(_, _, _, _, _)
lfn_copy(info, buf, off, name_offset, i) ==
    IF i = 13 THEN info
    ELSE lfn_copy(IF buf[off + lfn_offsets[i + 1]] = 0 \/ buf[off + lfn_offsets[i + 1]] = 255
                  THEN info
                  ELSE [info EXCEPT !.name = ((name_offset + i) :> buf[off + lfn_offsets[i + 1]])
                                               @@ @],
                  buf, off, name_offset, i + 1)

\* The number of characters that loop copies (its name_length++).
lfn_chars(buf, off) ==
    Cardinality({i \in 0..12 : buf[off + lfn_offsets[i + 1]] # 0
                               /\ buf[off + lfn_offsets[i + 1]] # 255})

\* One turn of the while (1) loop of fat_dir_read; loc holds lfn_crc and
\* name_length, out is *info.  The results of fat_dir_get_next are ignored.
fat_dir_read_turn(c) ==
    With(fat_read(c, c.dir.sector), LAMBDA c1 :
    IF c1.r = 0 THEN [c1 EXCEPT !.brk = TRUE, !.r = FSTATUS_ERROR]
    ELSE
    With(c1.vol.buffer, LAMBDA buf :
    With(c1.dir.rw_offset, LAMBDA off :
    IF buf[off] = 0 THEN [c1 EXCEPT !.brk = TRUE, !.r = FSTATUS_EOF]
    ELSE IF buf[off] = 229 \/ buf[off] = 5 THEN fat_dir_get_next(c1)
    ELSE IF buf[off + SFN_ATTR] % 16 = ATTR_LFN
    THEN fat_dir_get_next(
             [c1 EXCEPT
                !.out = lfn_copy(@, buf, off,
                                 (13 * ((buf[off] % (LFN_SEQ_MSK + 1)) + 255)) % 256, 0),
                !.loc.name_length = (@ + lfn_chars(buf, off)) % 256,
                !.loc.lfn_crc = buf[off + LFN_CRC]])
    ELSE IF c1.loc.lfn_crc # 0 /\ c1.loc.lfn_crc # fat_dir_sfn_crc(buf, off)
    THEN [c1 EXCEPT !.brk = TRUE, !.r = FSTATUS_ERROR]
    ELSE
    With(IF c1.loc.lfn_crc # 0 THEN c1
         ELSE [c1 EXCEPT !.out.name = [i \in 0..10 |-> buf[off + i]] @@ @,
                         !.loc.name_length = (@ + 11) % 256], LAMBDA c2 :
    With(fat_dir_get_next(
             [c2 EXCEPT !.out.attribute = buf[off + SFN_ATTR],
                        !.out.c_time_tenth = buf[off + SFN_CTIME_TH],
                        !.out.c_time = fat_load16(buf, off + SFN_CTIME),
                        !.out.c_date = fat_load16(buf, off + SFN_CDATE),
                        !.out.w_time = fat_load16(buf, off + SFN_WTIME),
                        !.out.w_date = fat_load16(buf, off + SFN_WDATE),
                        !.out.a_date = fat_load16(buf, off + SFN_ADATE),
                        !.out.size = fat_load32(buf, off + SFN_FILE_SIZE),
                        !.out.name_length = c2.loc.name_length]), LAMBDA c3 :
         [c3 EXCEPT !.brk = TRUE, !.r = FSTATUS_OK])))))

\* fat_dir_read(dir, info); c.out is *info as the caller passes it.  The
\* loop ends at the latest when the cursor runs off the device.
fat_dir_read(c) ==
    [Repeat(fat_dir_read_turn, [c EXCEPT !.loc = [lfn_crc |-> 0, name_length |-> 0]],
            DirTurns)
        EXCEPT !.brk = FALSE, !.loc = <<>>]

\* Directory names: "ALPHA      ", "BETA       " and "LAST       ".
AlphaName == <<65, 76, 80, 72, 65, 32, 32, 32, 32, 32, 32>>
BetaName == <<66, 69, 84, 65, 32, 32, 32, 32, 32, 32, 32>>
LastName == <<76, 65, 83, 84, 32, 32, 32, 32, 32, 32, 32>>

\* Where the directories of the image are: /alpha in cluster 6, /alpha/beta
\* in cluster 4 (the file of 100 bytes takes cluster 3 alone).
AlphaCluster == 6
BetaCluster == 4
DirFileSize == 100

\* The sector buf with the 32-byte record rec at byte off.
PutRecord(buf, off, rec) ==
    [i \in 0..(SectorBytes - 1) |->
        IF i >= off /\ i < off + Len(rec) THEN rec[i - off + 1] ELSE buf[i]]

\* A directory sector of deleted records; the last record of the cluster is
\* the file "LAST".
DeletedRecords(with_last) ==
    [i \in 0..(SectorBytes - 1) |->
        IF with_last /\ i >= SectorBytes - 32
        THEN SfnRecord(LastName, 32, 0, 5)[i - (SectorBytes - 32) + 1]
        ELSE IF i % 32 = 0 THEN 229 ELSE 0]

\* The image with the directory chain /alpha/beta/: the root directory has
\* the record of alpha behind the file's, alpha holds the record of beta and
\* the end marker, and beta fills its cluster to the last record.
DirImage ==
    [l \in LBAs |->
        IF l = DataLba
        THEN PutRecord(RootImage(DirFileSize, ClustersOf(DirFileSize)), 64,
                       SfnRecord(AlphaName, ATTR_DIR, AlphaCluster, 0))
        ELSE IF l = DataLba + (AlphaCluster - 2) * Layout.cluster_size
        THEN PutRecord(Zero512, 0, SfnRecord(BetaName, ATTR_DIR, BetaCluster, 0))
        ELSE IF l = DataLba + (AlphaCluster - 2) * Layout.cluster_size + 1
        THEN Zero512
        ELSE IF l = DataLba + (BetaCluster - 2) * Layout.cluster_size
        THEN DeletedRecords(FALSE)
        ELSE IF l = DataLba + (BetaCluster - 2) * Layout.cluster_size + 1
        THEN DeletedRecords(TRUE)
        ELSE DiskImage(DirFileSize, <<>>, 2)[l]]

\* "C:/", "C:/alpha/", "C:/alpha/beta/", "C:/nodir/", "C:/alpha/nodir/",
\* "D:/alpha/", "C/alpha/" and "C:alpha/"
PathRoot == <<67, 58, 47>>
PathAlpha == <<67, 58, 47, 97, 108, 112, 104, 97, 47>>
PathBeta == <<67, 58, 47, 97, 108, 112, 104, 97, 47, 98, 101, 116, 97, 47>>
PathNoDir == <<67, 58, 47, 110, 111, 100, 105, 114, 47>>
PathAlphaNoDir == <<67, 58, 47, 97, 108, 112, 104, 97, 47, 110, 111, 100, 105, 114, 47>>
PathNoVolume == <<68, 58, 47, 97, 108, 112, 104, 97, 47>>
PathNoColon == <<67, 47, 97, 108, 112, 104, 97, 47>>
PathNoSlash == <<67, 58, 97, 108, 112, 104, 97, 47>>
DirPaths == {PathRoot, PathAlpha, PathBeta, PathNoDir, PathAlphaNoDir, PathNoVolume,
             PathNoColon, PathNoSlash}

\* Calls made in one behaviour of the directory cursor.
MaxDirSteps == 4

InitDir ==
    /\ disk = [d \in {DISK_SD_CARD} |-> DirImage]
    /\ file = UninitFile(0)
    /\ InitCommon

\* The call state of a call on the directory cursor.
DirCall(fail) ==
    [NewCall(disk[DISK_SD_CARD], IF dir.vol_set THEN volumes[dir.vol] ELSE <<>>,
             fail, written)
        EXCEPT !.dir = dir]

\* The effects of a call on the directory cursor.
DirCommit(c, result) ==
    /\ Issued(c.fail, c.nio)
    /\ disk' = [disk EXCEPT ![DISK_SD_CARD] = c.dsk]
    /\ volumes' = IF c.dir.vol_set THEN [volumes EXCEPT ![c.dir.vol] = c.vol]
                  ELSE volumes
    /\ dir' = c.dir
    /\ written' = c.shadow
    /\ io_log' = c.log
    /\ ret' = result
    /\ steps' = steps + 1
    /\ UNCHANGED <<volume_base, volume_bitmask, mount_buffer, file, out_buf>>

DirOpen ==
    /\ steps < MaxDirSteps
    /\ \E fail \in FileFailSets, path \in DirPaths, ulfn \in {0, 1} :
          LET c == fat_dir_open(DirCall(fail), volumes, volume_base, path, Len(path), ulfn)
          IN  DirCommit(c, [op |-> "fat_dir_open", path |-> path, r |-> c.r,
                            info |-> UninitInfo])

DirRead ==
    /\ steps < MaxDirSteps
    /\ dir.vol_set
    /\ \E fail \in FileFailSets :
          LET c == fat_dir_read([DirCall(fail) EXCEPT !.out = UninitInfo])
          IN  DirCommit(c, [op |-> "fat_dir_read", path |-> <<>>, r |-> c.r,
                            info |-> c.out])

NextDir ==
    \/ FileMount
    \/ DirOpen
    \/ DirRead

SpecDir == InitDir /\ [][NextDir]_vars

-----------------------------------------------------------------------------
(* Registry behaviours: mounts and ejects of two disks *)

\* A second value of disk_e (fat32.h is not part of src/).
DISK_OTHER == "DISK_OTHER"
RegDisks == {DISK_SD_CARD, DISK_OTHER}

\* A master boot record whose partition entries start at the given LBAs.
MbrOf(lbas) ==
    fat_store16([i \in 0..(SectorBytes - 1) |->
                   IF \E k \in 1..Len(lbas) :
                         i = MBR_PARTITION + (k - 1) * MBR_PARTITION_SIZE + PAR_LBA
                   THEN lbas[((i - MBR_PARTITION) \div MBR_PARTITION_SIZE) + 1]
                   ELSE IF \E k \in 1..Len(lbas) :
                         i = MBR_PARTITION + (k - 1) * MBR_PARTITION_SIZE + PAR_TYPE
                   THEN 12 ELSE 0],
                MBR_BOOT_SIG, MBR_BOOT_SIG_VALUE)

\* A boot sector with the fields of l; "FAT" is written at l.fstype.
BpbOf(l) ==
    LET b0 == fat_store16(Zero512, BPB_SECTOR_SIZE, l.sector_size)
        b1 == [b0 EXCEPT ![BPB_CLUSTER_SIZE] = l.cluster_size,
                         ![BPB_NUM_FATS] = l.num_fats]
        b2 == fat_store16(b1, BPB_RSVD_CNT, l.rsvd_cnt)
        b3 == fat_store16(b2, BPB_ROOT_ENT_CNT, l.root_ent_cnt)
        b4 == fat_store32(b3, BPB_TOT_SECT_32, l.tot_sect)
        b5 == fat_store32(b4, BPB_32_FAT_SIZE, l.fat_size)
        b6 == fat_store32(b5, BPB_32_ROOT_CLUST, l.root_cluster)
        b7 == fat_store16(b6, BPB_32_FSINFO, l.fsinfo)
        b8 == PutBytes(b7, l.fstype, FAT_STR)
    IN  fat_store16(b8, MBR_BOOT_SIG, l.sig)

Fat32Layout(rsvd_cnt, num_fats, fat_size, cluster_size, root_cluster) ==
    [sector_size |-> SectorBytes, cluster_size |-> cluster_size, rsvd_cnt |-> rsvd_cnt,
     num_fats |-> num_fats, root_ent_cnt |-> 0, tot_sect |-> 1000000,
     fat_size |-> fat_size, root_cluster |-> root_cluster, fsinfo |-> 1,
     fstype |-> BPB_32_FSTYPE, sig |-> MBR_BOOT_SIG_VALUE]

\* The four partitions of the partitioned card: where each starts and what
\* its boot sector says.
PartLbas == <<1, 4, 7, 10>>
PartLayouts ==
    <<Fat32Layout(2, 1, 2, 2, 2), Fat32Layout(1, 2, 1, 1, 3),
      Fat32Layout(3, 2, 2, 4, 2), Fat32Layout(32, 2, 1024, 8, 2)>>

FourPartImage ==
    [lba \in 0..(NumSectors - 1) |->
        IF lba = 0 THEN MbrOf(PartLbas)
        ELSE IF \E k \in 1..4 : PartLbas[k] = lba
        THEN BpbOf(PartLayouts[CHOOSE k \in 1..4 : PartLbas[k] = lba])
        ELSE Zero512]

\* A card with a signed master boot record and an empty partition table.
EmptyTableImage ==
    [lba \in 0..(NumSectors - 1) |-> IF lba = 0 THEN MbrOf(<<>>) ELSE Zero512]

\* A card whose partitions hold a FAT16 volume (too few clusters for FAT32)
\* and a sector without a boot signature.
NonFat32Image ==
    [lba \in 0..(NumSectors - 1) |->
        IF lba = 0 THEN MbrOf(<<1, 4>>)
        ELSE IF lba = 1
        THEN BpbOf([Fat32Layout(1, 2, 32, 4, 0) EXCEPT
                       !.root_ent_cnt = 512, !.tot_sect = 40000,
                       !.fstype = BPB_16_FSTYPE])
        ELSE IF lba = 4
        THEN BpbOf([Fat32Layout(2, 1, 2, 2, 2) EXCEPT !.sig = 0])
        ELSE Zero512]

\* A card nothing was ever written to.
BlankImage == [lba \in 0..(NumSectors - 1) |-> Zero512]

CardImages == {FourPartImage, EmptyTableImage, NonFat32Image, BlankImage}

\* What a fresh struct volume_s can hold: its buffer, dirty flag and letter.
UninitStructs ==
    {[buf |-> Zero512, dirty |-> 0, letter |-> 0],
     [buf |-> JunkSector, dirty |-> 1, letter |-> 0],
     [buf |-> Zero512, dirty |-> 0, letter |-> 67]}

\* The mount in progress on disk d, from the registry in reg.
RegCall(reg, d, uletter) ==
    [dsk |-> reg.disk[d], volumes |-> reg.volumes, volume_base |-> reg.volume_base,
     volume_bitmask |-> reg.volume_bitmask, mount_buffer |-> reg.mount_buffer,
     fail |-> {}, shadow |-> <<>>, log |-> <<>>, nio |-> 0, r |-> 1, wild |-> FALSE,
     partitions |-> <<>>, uletter |-> uletter]

\* The registry after n more mounts of the card.
RECURSIVE MountedTimes(_, _)
MountedTimes(reg, n) ==
    IF n = 0 THEN reg
    ELSE With(disk_mount(RegCall(reg, DISK_SD_CARD, 0), DISK_SD_CARD, TRUE, TRUE,
                         Zero512, 0), LAMBDA m :
              MountedTimes([disk |-> [reg.disk EXCEPT ![DISK_SD_CARD] = m.dsk],
                            volumes |-> m.volumes, volume_base |-> m.volume_base,
                            volume_bitmask |-> m.volume_bitmask,
                            mount_buffer |-> m.mount_buffer], n - 1))

MaxRegSteps == 3
\* Mounts of the four-partition card that fill the 32 letters.
PreMounts == 8

InitReg ==
    /\ \E card \in CardImages, pre \in {0, PreMounts} :
          /\ pre > 0 => card = FourPartImage
          /\ \E reg \in {MountedTimes(
                             [disk |-> [d \in RegDisks |->
                                          IF d = DISK_SD_CARD THEN card
                                          ELSE DiskImage(0, <<>>, 2)],
                              volumes |-> <<>>, volume_base |-> NULL,
                              volume_bitmask |-> 0, mount_buffer |-> Zero512], pre)} :
                /\ disk = reg.disk
                /\ volumes = reg.volumes
                /\ volume_base = reg.volume_base
                /\ volume_bitmask = reg.volume_bitmask
                /\ mount_buffer = reg.mount_buffer
    /\ file = UninitFile(0)
    /\ dir = UninitDir
    /\ out_buf = <<>>
    /\ ret = [op |-> "none", r |-> 1, d |-> DISK_SD_CARD]
    /\ io_log = <<>>
    /\ written = <<>>
    /\ steps = 0

Registry ==
    [disk |-> disk, volumes |-> volumes, volume_base |-> volume_base,
     volume_bitmask |-> volume_bitmask, mount_buffer |-> mount_buffer]

RegCommit(m, d, op) ==
    /\ disk' = [disk EXCEPT ![d] = m.dsk]
    /\ volumes' = m.volumes
    /\ volume_base' = m.volume_base
    /\ volume_bitmask' = m.volume_bitmask
    /\ mount_buffer' = m.mount_buffer
    /\ io_log' = m.log
    /\ ret' = [op |-> op, r |-> m.r, d |-> d]
    /\ steps' = steps + 1
    /\ UNCHANGED <<file, out_buf, dir, written>>

\* disk_mount(d) of a present, initialised disk.
RegMount ==
    /\ steps < MaxRegSteps
    /\ \E d \in RegDisks, u \in UninitStructs :
          RegCommit(disk_mount(RegCall(Registry, d, u.letter), d, TRUE, TRUE,
                               u.buf, u.dirty), d, "disk_mount")

\* disk_eject(d)
RegEject ==
    /\ steps < MaxRegSteps
    /\ \E d \in RegDisks, freed_reads_null \in BOOLEAN, shift_wraps \in BOOLEAN :
          RegCommit(disk_eject(RegCall(Registry, d, 0), d, freed_reads_null,
                               shift_wraps), d, "disk_eject")

NextReg == RegMount \/ RegEject

SpecReg == InitReg /\ [][NextReg]_vars

-----------------------------------------------------------------------------
(* File cursor: properties *)

\* The bytes of the file from offset o to offset size - 1.
FileTail(o, size) == [i \in 1..(size - o) |-> FileByte(o + i - 1)]

\* C8: for a file of size S whose chain covers S bytes and an offset o in
\* 0..S, fat_file_jump(o) followed by fat_file_read(S - o), the block
\* device answering every call, both succeed and the read delivers exactly
\* the bytes o..S-1 of the file, in order (o = 0: the whole file).
C8_JumpThenReadTail ==
    [][(/\ ret.op = "fat_file_jump"
        /\ ret.offset <= file.size
        /\ ~DeviceFailed
        /\ ret'.op = "fat_file_read"
        /\ ret'.count = file.size - ret.offset
        /\ ~DeviceFailed')
          => /\ ret.r = FSTATUS_OK
             /\ ret'.r = FSTATUS_OK
             /\ ret'.status = file.size - ret.offset
             /\ out_buf' = FileTail(ret.offset, file.size)]_vars

\* A read that followed a jump into the first cluster has delivered the
\* tail of a file of two clusters, over the sector and cluster boundaries.
C8_Witness ==
    /\ ret.op = "fat_file_read"
    /\ ret.r = FSTATUS_OK
    /\ file.size = TwoClusterFileSize
    /\ ret.g = 1000
    /\ ret.count = file.size - 1000
    /\ out_buf = FileTail(1000, file.size)
    /\ file.cluster = FileChain[2]

\* C9: fat_file_read(file, buf, n, &status) called with glob_offset = g <=
\* size, the block device answering every call, returns OK with status =
\* min(n, size - g), delivers that many bytes and advances glob_offset by
\* that amount; with g = size it delivers nothing.
C9_ShortRead ==
    (ret.op = "fat_file_read" /\ ret.g <= file.size /\ ~DeviceFailed)
       => /\ ret.r = FSTATUS_OK
          /\ ret.status = (IF ret.count <= file.size - ret.g
                           THEN ret.count ELSE file.size - ret.g)
          /\ Len(out_buf) = ret.status
          /\ file.glob_offset = ret.g + ret.status

\* The sector of byte k of the file, along the file's chain.
FileSector(k) ==
    DataLba + (FileChain[(k \div ClusterBytes) + 1] - 2) * Layout.cluster_size
            + ((k \div SectorBytes) % Layout.cluster_size)

\* (sector, rw_offset) addresses byte g of the file; a cursor that stands
\* behind the last byte of a sector addresses the first byte of the next.
CursorAddresses(g) ==
    \/ /\ file.sector = FileSector(g)
       /\ file.rw_offset = g % SectorBytes
    \/ /\ g > 0 /\ g % SectorBytes = 0
       /\ file.sector = FileSector(g - 1)
       /\ file.rw_offset = SectorBytes

\* The last handler was a call on the file cursor.
FileCallOp(op) == op \in {"fat_file_open", "fat_file_jump", "fat_file_read"}

\* C10: after any sequence of fat_file_open, fat_file_jump and
\* fat_file_read calls on an opened file, glob_offset <= size, and (sector,
\* rw_offset) addresses the byte at glob_offset of the file's chain (where
\* the chain has such a byte).
C10_CursorInvariant ==
    (FileCallOp(ret.op) /\ file.vol # NULL)
       => /\ file.glob_offset <= file.size
          /\ file.glob_offset < ClustersOf(file.size) * ClusterBytes
                => CursorAddresses(file.glob_offset)

\* The file's directory record as stored on the device: its first cluster and
\* its size.
RecordCluster ==
    FromHalves(fat_load16(disk[DISK_SD_CARD][DataLba], 32 + SFN_CLUSTH),
               fat_load16(disk[DISK_SD_CARD][DataLba], 32 + SFN_CLUSTL))
RecordSize == fat_load32(disk[DISK_SD_CARD][DataLba], 32 + SFN_FILE_SIZE)

\* The cursor stands at the start of the found file, glob_offset aside.
OpenedAtStart ==
    /\ file.cluster = RecordCluster
    /\ file.sector = fat_clust_to_sect(volumes[file.vol], RecordCluster)
    /\ file.start_sect = file.sector
    /\ file.size = RecordSize
    /\ file.rw_offset = 0

\* C11: fat_file_open that returns OK leaves the cursor at the start of the
\* found file: cluster is the record's first cluster, sector = start_sect is
\* that cluster's first sector, size is the record's size, rw_offset = 0 and
\* glob_offset = 0.
C11_OpenAtStart ==
    (ret.op = "fat_file_open" /\ ret.r = FSTATUS_OK)
       => (OpenedAtStart /\ file.glob_offset = 0)

\* What fat_file_open does establish: every field but glob_offset.
OpenAtStartButOffset ==
    (ret.op = "fat_file_open" /\ ret.r = FSTATUS_OK) => OpenedAtStart

-----------------------------------------------------------------------------
(* Registry properties (behaviours of SpecReg) *)

\* The addresses of the registered volumes, in list order from address a.
RECURSIVE ListFrom(_, _)
ListFrom(vs, a) == IF a = NULL THEN <<>> ELSE <<a>> \o ListFrom(vs, vs[a].next)

Registered == ListFrom(volumes, volume_base)
RegisteredSet == {Registered[k] : k \in 1..Len(Registered)}

LettersUnique ==
    \A a, b \in RegisteredSet : a # b => volumes[a].letter # volumes[b].letter

LettersMatchBitmask ==
    /\ \A a \in RegisteredSet :
          /\ volumes[a].letter \in 67..98
          /\ BitIsSet(volume_bitmask, volumes[a].letter - 67)
    /\ \A i \in 0..31 :
          BitIsSet(volume_bitmask, i)
             => \E a \in RegisteredSet : volumes[a].letter = 67 + i

\* C12: the letters of the registered volumes are pairwise different, every
\* registered volume holds a letter 'C' + i whose bit i of volume_bitmask is
\* set, and a bit is set only if some registered volume holds its letter,
\* also once more than 32 volumes have been mounted.
C12_LettersAndBitmask == LettersUnique /\ LettersMatchBitmask

\* The same while no more than 32 volumes have ever been mounted.
UpTo32Volumes == Len(volumes) <= 32 => (LettersUnique /\ LettersMatchBitmask)

\* The registered volumes of the disks other than d, in list order, without
\* their list links.
RECURSIVE OthersFrom(_, _, _)
OthersFrom(vs, a, d) ==
    IF a = NULL THEN <<>>
    ELSE (IF vs[a].disk = d THEN <<>> ELSE <<[vs[a] EXCEPT !.next = NULL]>>)
         \o OthersFrom(vs, vs[a].next, d)

\* The lowest letter no registered volume holds.
LowestFreeLetter ==
    CHOOSE l \in 67..99 :
       /\ \A a \in RegisteredSet : volumes[a].letter # l
       /\ \A k \in 67..(l - 1) : \E a \in RegisteredSet : volumes[a].letter = k

EjectedCleanly ==
    (ret'.op = "disk_eject" /\ ret'.r = 1 /\ steps' = steps + 1)
       => /\ \A a \in RegisteredSet' : volumes'[a].disk # ret'.d
          /\ \A a \in RegisteredSet :
                volumes[a].disk = ret'.d
                   => volume_get(volumes', volume_base', volumes[a].letter) = NULL
          /\ OthersFrom(volumes', volume_base', ret'.d)
                = OthersFrom(volumes, volume_base, ret'.d)

MountAfterEjectTakesLowest ==
    (ret.op = "disk_eject" /\ ret.r = 1 /\ ret'.op = "disk_mount"
        /\ steps' = steps + 1 /\ Len(volumes') > Len(volumes))
       => volumes'[Len(volumes) + 1].letter = LowestFreeLetter

\* C13: after a disk_eject(d) that returns success no registered volume has
\* disk = d (also when d's volumes are neighbours in the list), volume_get of
\* each letter they held returns NULL, the volumes of the other disks are
\* unchanged, and the mount that follows gives its first volume the lowest
\* free letter.
C13_EjectRemovesAll == [][EjectedCleanly /\ MountAfterEjectTakesLowest]_vars

\* C14: the registry holds one volume per mounted partition: no two
\* registered volumes have the same disk and the same fat_lba, also when
\* disk_mount is called twice on a disk without an eject in between.
C14_OneVolumePerPartition ==
    \A a, b \in RegisteredSet :
       (volumes[a].disk = volumes[b].disk /\ volumes[a].fat_lba = volumes[b].fat_lba)
          => a = b

\* Partition i of the master boot record in sector 0 of img: where it starts.
PartitionLba(img, i) ==
    fat_load32(img[0], MBR_PARTITION + (i - 1) * MBR_PARTITION_SIZE + PAR_LBA)

\* The partitions of img that fat_search accepts, in table order.
AcceptedPartitions(img) ==
    SelectSeq(<<1, 2, 3, 4>>,
              LAMBDA i : /\ PartitionLba(img, i) \in (DOMAIN img) \ {0}
                         /\ fat_search(img[PartitionLba(img, i)]) = 1)

\* The four addresses of the volume of the partition that starts at lba with
\* boot sector bpb.
VolumeAddresses(lba, bpb) ==
    [fat_lba  |-> lba + fat_load16(bpb, BPB_RSVD_CNT),
     info_lba |-> lba + fat_load16(bpb, BPB_32_FSINFO),
     data_lba |-> lba + fat_load16(bpb, BPB_RSVD_CNT)
                      + bpb[BPB_NUM_FATS] * fat_load32(bpb, BPB_32_FAT_SIZE),
     root_lba |-> (fat_load32(bpb, BPB_32_ROOT_CLUST) - 2) * bpb[BPB_CLUSTER_SIZE]
                      + lba + fat_load16(bpb, BPB_RSVD_CNT)
                      + bpb[BPB_NUM_FATS] * fat_load32(bpb, BPB_32_FAT_SIZE)]

ExpectedAddresses(img) ==
    [k \in 1..Len(AcceptedPartitions(img)) |->
        VolumeAddresses(PartitionLba(img, AcceptedPartitions(img)[k]),
                        img[PartitionLba(img, AcceptedPartitions(img)[k])])]

AddressesOf(v) ==
    [fat_lba |-> v.fat_lba, info_lba |-> v.info_lba, data_lba |-> v.data_lba,
     root_lba |-> v.root_lba]

\* C16: a disk_mount that returns success has built one volume per accepted
\* partition, in table order, with fat_lba = lba + rsvd_cnt, info_lba = lba +
\* fsinfo, data_lba = fat_lba + num_fats * fat_size_32 and root_lba =
\* (root_cluster - 2) * cluster_size + data_lba (data_lba is in place when
\* root_lba is computed).
C16_VolumeAddresses ==
    [][(ret'.op = "disk_mount" /\ ret'.r = 1 /\ steps' = steps + 1)
          => [k \in 1..(Len(volumes') - Len(volumes)) |->
                 AddressesOf(volumes'[Len(volumes) + k])]
               = ExpectedAddresses(disk[ret'.d])]_vars

\* The four-partition card is mounted: its fourth volume has the layout
\* rsvd_cnt = 32, num_fats = 2, fat_size_32 = 1024, root_cluster = 2 at lba 10,
\* its second one a root cluster other than 2.
C16_Witness ==
    /\ ret.op = "disk_mount" /\ ret.r = 1
    /\ \E a, b \in RegisteredSet :
          /\ AddressesOf(volumes[a])
                = [fat_lba |-> 42, info_lba |-> 11, data_lba |-> 2090, root_lba |-> 2090]
          /\ AddressesOf(volumes[b])
                = [fat_lba |-> 5, info_lba |-> 5, data_lba |-> 7, root_lba |-> 8]

\* Cards with a signed master boot record and nothing to mount: an empty
\* partition table, or partitions that hold no FAT32 volume.
NothingToMount == {EmptyTableImage, NonFat32Image}

BlankCardRefused ==
    [][(ret'.op = "disk_mount" /\ steps' = steps + 1 /\ disk[ret'.d] = BlankImage)
          => /\ ret'.r = 0
             /\ volumes' = volumes
             /\ volume_base' = volume_base
             /\ volume_bitmask' = volume_bitmask]_vars

-----------------------------------------------------------------------------
(* fat_search on boot sectors around the FAT32 cluster limit *)

\* The first sector of a partition with n data clusters: n * cluster_size
\* sectors follow the reserved sectors, the FATs and the root directory
\* sectors of a FAT16 layout (none when root_ent_cnt = 0).
BootSectorOf(n, cluster_size, root_ent_cnt, sector_size, fstype, sig) ==
    BpbOf([sector_size |-> sector_size, cluster_size |-> cluster_size,
           rsvd_cnt |-> 32, num_fats |-> 2, root_ent_cnt |-> root_ent_cnt,
           tot_sect |-> 32 + 2 * 1024
                           + ((root_ent_cnt * 32 + sector_size - 1) \div sector_size)
                           + n * cluster_size,
           fat_size |-> 1024, root_cluster |-> 2, fsinfo |-> 1,
           fstype |-> fstype, sig |-> sig])

ClusterCounts == {65524, 65525, 65526, 70000}
BootSectors ==
    {BootSectorOf(n, cs, ent, ss, ft, sig) :
        n \in ClusterCounts, cs \in {1, 8}, ent \in {0, 512}, ss \in {512, 1024},
        ft \in {BPB_32_FSTYPE, BPB_16_FSTYPE, 3}, sig \in {MBR_BOOT_SIG_VALUE, 0}}

InitSearch ==
    /\ mount_buffer \in BootSectors
    /\ disk = [d \in {DISK_SD_CARD} |-> <<>>]
    /\ volumes = <<>>
    /\ volume_base = NULL
    /\ volume_bitmask = 0
    /\ file = UninitFile(0)
    /\ dir = UninitDir
    /\ out_buf = <<>>
    /\ ret = [op |-> "none", r |-> 1]
    /\ io_log = <<>>
    /\ written = <<>>
    /\ steps = 0

\* fat_search(mount_buffer)
Search ==
    /\ ret.op = "none"
    /\ ret' = [op |-> "fat_search", r |-> fat_search(mount_buffer)]
    /\ UNCHANGED <<disk, volumes, volume_base, volume_bitmask, mount_buffer, file,
                   out_buf, dir, io_log, written, steps>>

NextSearch == Search

SpecSearch == InitSearch /\ [][NextSearch]_vars

\* The data clusters of the volume whose boot sector is bpb, with the root
\* directory sectors rounded up from root_ent_cnt * 32 bytes.
DataClusters(bpb) ==
    (fat_load32(bpb, BPB_TOT_SECT_32)
        - (fat_load16(bpb, BPB_RSVD_CNT)
             + bpb[BPB_NUM_FATS] * fat_load32(bpb, BPB_32_FAT_SIZE)
             + ((fat_load16(bpb, BPB_ROOT_ENT_CNT) * 32
                   + fat_load16(bpb, BPB_SECTOR_SIZE) - 1)
                  \div fat_load16(bpb, BPB_SECTOR_SIZE))))
       \div bpb[BPB_CLUSTER_SIZE]

IsFat32(bpb) ==
    /\ fat_load16(bpb, 510) = 43605
    /\ \/ \A k \in 1..3 : bpb[BPB_32_FSTYPE + k - 1] = FAT_STR[k]
       \/ \A k \in 1..3 : bpb[BPB_16_FSTYPE + k - 1] = FAT_STR[k]
    /\ DataClusters(bpb) >= 65525

\* C15: fat_search accepts a boot sector exactly when its signature is
\* 0xAA55, "FAT" stands at the FAT16 or the FAT32 type offset and the volume
\* has at least 65525 data clusters, the root directory taking
\* ceil(root_ent_cnt * 32 / sector_size) sectors; a volume of exactly 65525
\* data clusters is accepted.
C15_SearchAcceptsFat32 ==
    ret.op = "fat_search" => (ret.r = 1 <=> IsFat32(mount_buffer))

\* What fat_search accepts is such a volume.
SearchAcceptsOnlyFat32 ==
    (ret.op = "fat_search" /\ ret.r = 1) => IsFat32(mount_buffer)

-----------------------------------------------------------------------------
(* Directory cursor properties (behaviours of SpecDir) *)

\* The cluster number in the short-name record at byte off of sector lba.
ClusterInRecord(lba, off) ==
    FromHalves(fat_load16(disk[DISK_SD_CARD][lba], off + SFN_CLUSTH),
               fat_load16(disk[DISK_SD_CARD][lba], off + SFN_CLUSTL))

\* The first cluster of the directory a path of the image names: the root
\* cluster of the boot sector, the cluster in alpha's record in the root
\* directory, the cluster in beta's record in alpha.
DirectoryCluster(path) ==
    IF path = PathRoot
    THEN fat_load32(disk[DISK_SD_CARD][Layout.part_lba], BPB_32_ROOT_CLUST)
    ELSE IF path = PathAlpha THEN ClusterInRecord(DataLba, 64)
    ELSE ClusterInRecord(DataLba + (AlphaCluster - 2) * Layout.cluster_size, 0)

OpenedOn(path) ==
    /\ dir.cluster = DirectoryCluster(path)
    /\ dir.sector = fat_clust_to_sect(volumes[dir.vol], dir.cluster)
    /\ dir.start_sect = dir.sector
    /\ dir.rw_offset = 0

\* C18: when fat_dir_open of the path of an existing directory returns OK,
\* the cursor stands at the start of that directory: cluster is its first
\* cluster (the volume's root cluster for "C:/"), sector = start_sect =
\* clust_to_sect(cluster) and rw_offset = 0.
C18_OpenDesignatesDirectory ==
    (ret.op = "fat_dir_open" /\ ret.r = FSTATUS_OK
        /\ ret.path \in {PathRoot, PathAlpha, PathBeta})
       => OpenedOn(ret.path)

\* The same for the directories below the root, no block-device call failing.
SubdirectoryOpened ==
    (ret.op = "fat_dir_open" /\ ret.r = FSTATUS_OK /\ ret.path \in {PathAlpha, PathBeta}
        /\ ~DeviceFailed)
       => OpenedOn(ret.path)

\* The statuses of a path whose letter names no volume or is not followed
\* by ":/".
StatusBeforeSearch ==
    ret.op = "fat_dir_open"
       => IF volume_get(volumes, volume_base, ret.path[1]) = NULL
          THEN ret.r = FSTATUS_NO_VOLUME
          ELSE (ret.path \in {PathNoColon, PathNoSlash} => ret.r = FSTATUS_PATH_ERR)

\* C19: fat_follow_path, called by fat_dir_open, returns NO_VOLUME when the
\* drive letter names no mounted volume, PATH_ERR when the letter is not
\* followed by ":/", and PATH_ERR, never OK, when a fragment of the path is
\* not found.
C19_PathErrors ==
    /\ StatusBeforeSearch
    /\ (ret.op = "fat_dir_open"
          /\ volume_get(volumes, volume_base, ret.path[1]) # NULL
          /\ ret.path \in {PathNoDir, PathAlphaNoDir})
         => ret.r = FSTATUS_PATH_ERR

\* The cursor stands inside its cluster, on a record boundary.
CursorInCluster ==
    /\ fat_clust_to_sect(volumes[dir.vol], dir.cluster) <= dir.sector
    /\ dir.sector < fat_clust_to_sect(volumes[dir.vol], dir.cluster)
                       + volumes[dir.vol].cluster_size
    /\ dir.rw_offset < volumes[dir.vol].sector_size
    /\ dir.rw_offset % 32 = 0

\* The last call was an fat_dir_open that returned OK, or an fat_dir_read (the
\* one caller of fat_dir_get_next on a cursor of fat_dir_open).
DirCallDone ==
    \/ ret.op = "fat_dir_open" /\ ret.r = FSTATUS_OK
    \/ ret.op = "fat_dir_read"

\* C20: after fat_dir_open and after every fat_dir_read, whether its steps
\* of fat_dir_get_next succeed or meet the end of the chain,
\* clust_to_sect(cluster) <= sector < clust_to_sect(cluster) + cluster_size,
\* rw_offset < sector_size and rw_offset % 32 = 0.
C20_DirCursorInvariant == (DirCallDone /\ dir.vol_set) => CursorInCluster

\* The same for cursors opened on a subdirectory, as long as no step has met
\* the end of the chain.
SubdirCursorInCluster ==
    (DirCallDone /\ dir.vol_set /\ ~DeviceFailed
        /\ dir.start_sect # volumes[dir.vol].root_lba
        /\ dir.sector < dir.start_sect + volumes[dir.vol].cluster_size)
       => CursorInCluster

\* An fat_dir_read has delivered the last record of beta's cluster: its step
\* of fat_dir_get_next met the end of the chain and left the cursor on the
\* sector behind the cluster.
ReadMetEndOfChain ==
    /\ ret.op = "fat_dir_read" /\ ret.r = FSTATUS_OK
    /\ ret.info.size = 5
    /\ dir.cluster = BetaCluster
    /\ dir.sector = fat_clust_to_sect(volumes[dir.vol], BetaCluster)
                       + volumes[dir.vol].cluster_size

-----------------------------------------------------------------------------
(* Directory listing: long names, deleted records and chains of clusters *)

\* A 32-byte long-name record: slot number seq (0x40 marks the last slot),
\* 13 characters stored as 16-bit units, and the checksum of the short name.
LfnRecord(seq, chars, crc) ==
    [i \in 1..32 |->
        IF i - 1 = LFN_SEQ THEN seq
        ELSE IF i - 1 = SFN_ATTR THEN ATTR_LFN
        ELSE IF i - 1 = LFN_CRC THEN crc
        ELSE IF \E k \in 1..13 : lfn_offsets[k] = i - 1
        THEN chars[CHOOSE k \in 1..13 : lfn_offsets[k] = i - 1]
        ELSE IF \E k \in 1..13 : lfn_offsets[k] + 1 = i - 1 /\ chars[k] = 255
        THEN 255
        ELSE 0]

\* The 13 characters of slot n of a long name: the name is ended by 0x0000
\* and the slot is padded with 0xFFFF.
LfnSlot(name, n) ==
    [k \in 1..13 |->
        IF 13 * (n - 1) + k <= Len(name) THEN name[13 * (n - 1) + k]
        ELSE IF 13 * (n - 1) + k = Len(name) + 1 THEN 0
        ELSE 255]

\* "hello_world.txt" / "HELLO_~1TXT", "hello" / "HELLO~1", "zero.0f" /
\* "ZERO~1  0F " (a short name whose checksum is 0), "bad" / "BAD~1",
\* "NOTE    TXT"
HelloWorldTxt == <<104, 101, 108, 108, 111, 95, 119, 111, 114, 108, 100, 46, 116, 120, 116>>
HelloWorldSfn == <<72, 69, 76, 76, 79, 95, 126, 49, 84, 88, 84>>
HelloLong == <<104, 101, 108, 108, 111>>
HelloSfn == <<72, 69, 76, 76, 79, 126, 49, 32, 32, 32, 32>>
ZeroLong == <<122, 101, 114, 111, 46, 48, 102>>
ZeroSfn == <<90, 69, 82, 79, 126, 49, 32, 32, 48, 70, 32>>
BadLong == <<98, 97, 100>>
BadSfn == <<66, 65, 68, 126, 49, 32, 32, 32, 32, 32, 32>>
NoteSfn == <<78, 79, 84, 69, 32, 32, 32, 32, 84, 88, 84>>

\* The checksum of an 11-byte short name, for the long-name records of the
\* image.
ChecksumOf(name) == fat_dir_sfn_crc([i \in 0..10 |-> name[i + 1]], 0)

\* Where the directories of the listing image are: the root directory in
\* clusters 2 and 5, /alpha in clusters 6 and 4, /alpha/hello (empty) in
\* cluster 3.
ListFat == (2 :> 5) @@ (6 :> 4)
HelloCluster == 3

\* A deleted record whose first byte is 0x05.
Deleted05 == [i \in 1..32 |-> IF i = 1 THEN 5 ELSE 0]

\* The first sector of the root directory: the label, alpha, and "bad", whose
\* long-name record carries a checksum that is not its short name's.
ListRoot0 ==
    PutRecord(PutRecord(PutRecord(PutRecord(DeletedRecords(FALSE),
        0, SfnRecord(LabelName, ATTR_VOL_LABEL, 0, 0)),
        32, SfnRecord(AlphaName, ATTR_DIR, AlphaCluster, 0)),
        64, LfnRecord(65, LfnSlot(BadLong, 1), (ChecksumOf(BadSfn) + 1) % 256)),
        96, SfnRecord(BadSfn, 32, 0, 3))

\* The first sector of /alpha: a short name, "hello", "hello_world.txt" in
\* two slots, and deleted records of both kinds.
ListAlpha0 ==
    PutRecord(PutRecord(PutRecord(PutRecord(PutRecord(PutRecord(PutRecord(
        DeletedRecords(FALSE),
        0, SfnRecord(NoteSfn, 32, 0, 7)),
        32, LfnRecord(65, LfnSlot(HelloLong, 1), ChecksumOf(HelloSfn))),
        64, SfnRecord(HelloSfn, ATTR_DIR, HelloCluster, 0)),
        96, LfnRecord(66, LfnSlot(HelloWorldTxt, 2), ChecksumOf(HelloWorldSfn))),
        128, LfnRecord(1, LfnSlot(HelloWorldTxt, 1), ChecksumOf(HelloWorldSfn))),
        160, SfnRecord(HelloWorldSfn, 32, 0, 15)),
        224, Deleted05)

\* The listing image.  The long-name record of "zero.0f" is the last record
\* of alpha's first cluster and its short-name record the first of the
\* second; the root directory goes on in cluster 5 with "LAST".
ListImage ==
    [l \in LBAs |->
        IF l >= FatLba /\ l < DataLba THEN FatImage(l - FatLba, 0, ListFat)
        ELSE IF l = DataLba THEN ListRoot0
        ELSE IF l = DataLba + 1 THEN DeletedRecords(FALSE)
        ELSE IF l = DataLba + (ListFat[2] - 2) * Layout.cluster_size
        THEN PutRecord(Zero512, 0, SfnRecord(LastName, 32, 0, 5))
        ELSE IF l = DataLba + (AlphaCluster - 2) * Layout.cluster_size
        THEN ListAlpha0
        ELSE IF l = DataLba + (AlphaCluster - 2) * Layout.cluster_size + 1
        THEN PutRecord(DeletedRecords(FALSE), SectorBytes - 32,
                       LfnRecord(65, LfnSlot(ZeroLong, 1), ChecksumOf(ZeroSfn)))
        ELSE IF l = DataLba + (ListFat[AlphaCluster] - 2) * Layout.cluster_size
        THEN PutRecord(Zero512, 0, SfnRecord(ZeroSfn, 32, 0, 9))
        ELSE IF l >= DataLba THEN Zero512
        ELSE DiskImage(0, <<>>, 2)[l]]

\* "C:/alpha/hello/" and "C:/alpha/hello_world/"
PathHello == <<67, 58, 47, 97, 108, 112, 104, 97, 47, 104, 101, 108, 108, 111, 47>>
PathHelloWorld ==
    <<67, 58, 47, 97, 108, 112, 104, 97, 47,
      104, 101, 108, 108, 111, 95, 119, 111, 114, 108, 100, 47>>
ListPaths == {PathRoot, PathAlpha, PathHello, PathHelloWorld}

\* Calls made in one behaviour of the listing.
MaxListSteps == 8

InitList ==
    /\ disk = [d \in {DISK_SD_CARD} |-> ListImage]
    /\ file = UninitFile(0)
    /\ InitCommon

\* fat_dir_open on a path of the listing image, as one of n calls at most.
OpenWithin(n) ==
    /\ steps < n
    /\ \E path \in ListPaths, ulfn \in {0, 1} :
          LET c == fat_dir_open(DirCall({}), volumes, volume_base, path, Len(path), ulfn)
          IN  DirCommit(c, [op |-> "fat_dir_open", path |-> path, r |-> c.r,
                            info |-> UninitInfo])

\* fat_dir_read, as one of n calls at most.
ReadWithin(n) ==
    /\ steps < n
    /\ dir.vol_set
    /\ \E fail \in FileFailSets :
          LET c == fat_dir_read([DirCall(fail) EXCEPT !.out = UninitInfo])
          IN  DirCommit(c, [op |-> "fat_dir_read", path |-> <<>>, r |-> c.r,
                            info |-> c.out])

ListOpen == OpenWithin(MaxListSteps)

ListRead == ReadWithin(MaxListSteps)

NextList ==
    \/ FileMount
    \/ ListOpen
    \/ ListRead

SpecList == InitList /\ [][NextList]_vars

-----------------------------------------------------------------------------
(* fat_dir_rename *)

\* name_length of fat_dir_rename: the number of characters before the first
\* '.' that is not the first character, or length when there is none.
rename_name_length(name, length) ==
    LET dots == {i \in 1..(length - 1) : CharAt(name, i + 1) = 46}
    IN  IF dots = {} THEN length
        ELSE CHOOSE i \in dots : \A j \in dots : i <= j

\* fat_dir_rename(dir, name, length): loc holds entries_req and entries_pres
\* as the function prints them before it runs off its end without a return
\* statement; undef is the value the caller then finds.
fat_dir_rename(c, name, length, undef) ==
    With(IF rename_name_length(name, length) > 8
         THEN ((length \div 13) + 255) % 256 ELSE 1, LAMBDA entries_req :
    With(fat_read(c, c.dir.sector), LAMBDA c1 :
    IF c1.r = 0
    THEN [c1 EXCEPT !.r = FSTATUS_ERROR,
                    !.loc = [entries_req |-> entries_req, entries_pres |-> 0]]
    ELSE [c1 EXCEPT
            !.r = undef,
            !.loc = [entries_req |-> entries_req,
                     entries_pres |->
                        IF c1.vol.buffer[c1.dir.rw_offset + SFN_ATTR] % 16 = ATTR_LFN
                        THEN (c1.vol.buffer[c1.dir.rw_offset] % (LFN_SEQ_MSK + 1)) + 1
                        ELSE 1]]))

\* A name of n characters 'a', with a '.' as character number dot (0: none).
NameOf(n, dot) == [i \in 1..n |-> IF i = dot THEN 46 ELSE 97]

\* The new names: without a '.', of the lengths around 8, around the
\* multiples of 13 and the longest; "aaaaaaaa.aaa", "aaaaaaaaa.aaa" and ".aaa".
RenameNames ==
    {NameOf(n, 0) : n \in {1, 8, 9, 12, 13, 14, 26, 27, 255}}
        \cup {NameOf(12, 9), NameOf(13, 10), NameOf(4, 1)}

\* Calls made in one behaviour of the renaming.
MaxRenameSteps == 4

RenameOpen == OpenWithin(MaxRenameSteps)

RenameRead == ReadWithin(MaxRenameSteps)

DirRename ==
    /\ steps < MaxRenameSteps
    /\ dir.vol_set
    /\ \E fail \in FileFailSets, name \in RenameNames, undef \in {0, 1} :
          LET c == fat_dir_rename(DirCall(fail), name, Len(name), undef)
          IN  DirCommit([c EXCEPT !.loc = <<>>],
                        [op |-> "fat_dir_rename", path |-> name, r |-> c.r,
                         info |-> UninitInfo, entries_req |-> c.loc.entries_req,
                         entries_pres |-> c.loc.entries_pres])

NextRename ==
    \/ FileMount
    \/ RenameOpen
    \/ RenameRead
    \/ DirRename

SpecRename == InitList /\ [][NextRename]_vars

-----------------------------------------------------------------------------
(* fat_dir_search on the directories of the listing image *)

\* The names searched: "hello", "hello_world", "hello_world.txt" and
\* "zzzzzzzzzzzzzzz".  Names other than those found at the records of
\* "hello" have 15 characters, the longest window a long-name record of the
\* image compares.
FindNames == {HelloLong, SubSeq(HelloWorldTxt, 1, 11), HelloWorldTxt, [i \in 1..15 |-> 122]}

\* Calls made in one behaviour of the search.
MaxFindSteps == 4

FindOpen == OpenWithin(MaxFindSteps)

\* fat_dir_search(&dir, name, size) on the cursor, as fat_follow_path calls
\* it for a fragment of its path.
DirSearch ==
    /\ steps < MaxFindSteps
    /\ dir.vol_set
    /\ \E fail \in FileFailSets, name \in FindNames, ulfn \in {0, 1} :
          LET c == fat_dir_search(DirCall(fail), name, 1, Len(name), ulfn)
          IN  DirCommit(c, [op |-> "fat_dir_search", path |-> name, r |-> c.r,
                            info |-> UninitInfo])

NextFind ==
    \/ FileMount
    \/ FindOpen
    \/ DirSearch

SpecFind == InitList /\ [][NextFind]_vars

-----------------------------------------------------------------------------
(* fat_dir_sfn_crc on short names *)

\* The name with byte a everywhere but at index k, where it has byte b.
CrcName(a, b, k) == [i \in 1..11 |-> IF i = k THEN b ELSE a]

\* The short names the checksum is computed of: names of the listing image
\* and names of bytes with the lowest and the highest bit set and clear.
CrcNames ==
    {HelloWorldSfn, HelloSfn, ZeroSfn, BadSfn, NoteSfn, LabelName, AlphaName}
        \cup {CrcName(a, b, k) : a \in {0, 1, 65, 128, 255}, b \in {0, 1, 65, 128, 255},
                                 k \in 1..11}

\* A sector that starts with the record of a short name.
CrcSectors == {PutRecord(Zero512, 0, SfnRecord(name, 32, 0, 0)) : name \in CrcNames}

InitCrc ==
    /\ mount_buffer \in CrcSectors
    /\ disk = [d \in {DISK_SD_CARD} |-> <<>>]
    /\ volumes = <<>>
    /\ volume_base = NULL
    /\ volume_bitmask = 0
    /\ file = UninitFile(0)
    /\ dir = UninitDir
    /\ out_buf = <<>>
    /\ ret = [op |-> "none", r |-> 1]
    /\ io_log = <<>>
    /\ written = <<>>
    /\ steps = 0

\* fat_dir_sfn_crc(mount_buffer)
SfnCrc ==
    /\ ret.op = "none"
    /\ ret' = [op |-> "fat_dir_sfn_crc", r |-> fat_dir_sfn_crc(mount_buffer, 0)]
    /\ UNCHANGED <<disk, volumes, volume_base, volume_bitmask, mount_buffer, file,
                   out_buf, dir, io_log, written, steps>>

NextCrc == SfnCrc

SpecCrc == InitCrc /\ [][NextCrc]_vars

\* The 8 bits of c rotated right by one: bit i of the result is bit i + 1 of
\* c, and bit 7 is bit 0 of c.
RotRight8(c) ==
    LET bit(i) == (c \div (2 ^ i)) % 2
        RECURSIVE sum(_)
        sum(i) == IF i = 8 THEN 0 ELSE bit((i + 1) % 8) * (2 ^ i) + sum(i + 1)
    IN  sum(0)

\* The rotate-add checksum of the first n bytes of the name at the start of
\* buf: 0 for no byte, then rot_right_8(c) + b modulo 256 for each byte b.
RECURSIVE RotateAdd(_, _)
RotateAdd(buf, n) ==
    IF n = 0 THEN 0 ELSE (RotRight8(RotateAdd(buf, n - 1)) + buf[n - 1]) % 256

\* C24: fat_dir_sfn_crc over an 11-byte short name N returns the 8-bit
\* rotate-add checksum: c starts at 0 and for each of the 11 bytes b in
\* order c := (((c & 1) << 7) | (c >> 1)) + b modulo 256.
C24_SfnCrcRotateAdd ==
    ret.op = "fat_dir_sfn_crc" => ret.r = RotateAdd(mount_buffer, 11)

\* The checksum of "HELLO_~1TXT" has been computed: 0xDB, reached through
\* rotations that carry bit 0 to bit 7 and additions that overflow 8 bits.
C24_Witness ==
    /\ ret.op = "fat_dir_sfn_crc"
    /\ \A i \in 0..10 : mount_buffer[i] = HelloWorldSfn[i + 1]
    /\ ret.r = 219

-----------------------------------------------------------------------------
(* Directory listing properties (behaviours of SpecList) *)

\* The volume of the directory cursor and the sectors as it sees them.
DirVol == volumes[dir.vol]
DirSector(lba) == SectorIn(DirVol, disk[DISK_SD_CARD], lba)

\* The record after the one at byte off of sector lba, in the order of the
\* directory's chain: the next record of the sector, the first record of
\* the next sector of the cluster, or the first record of the cluster the
\* FAT names as the successor.  `end` is set when the chain ends there.
RecordAfter(lba, off) ==
    IF off + 32 < DirVol.sector_size THEN [lba |-> lba, off |-> off + 32, end |-> FALSE]
    ELSE IF (lba + 1 - DirVol.data_lba) % DirVol.cluster_size # 0
    THEN [lba |-> lba + 1, off |-> 0, end |-> FALSE]
    ELSE LET next == FatEntryIn(DirVol, disk[DISK_SD_CARD],
                                ((lba - DirVol.data_lba) \div DirVol.cluster_size) + 2)
         IN  IF IsEoc(next) THEN [lba |-> lba, off |-> off, end |-> TRUE]
             ELSE [lba |-> DirVol.data_lba + (next - 2) * DirVol.cluster_size,
                   off |-> 0, end |-> FALSE]

\* The characters of the long-name record at off, each at index
\* 13 * ((sequence & 0x1F) - 1) + k of the name; the units 0x0000 and 0xFFFF
\* end and pad the name.
SlotChars(b, off) ==
    LET base == 13 * ((b[off + LFN_SEQ] % 32) - 1)
        used == {k \in 0..12 : fat_load16(b, off + lfn_offsets[k + 1]) \notin {0, 65535}}
    IN  [i \in {base + k : k \in used} |-> b[off + lfn_offsets[i - base + 1]]]

\* No long-name record precedes the record.
NoChain == [chain |-> FALSE, crc |-> 0, name |-> <<>>]

\* The first record at or after (lba, off), in the order of the chain, that
\* is the end marker ("eof") or an in-use short-name record ("sfn"); "end"
\* when the chain ends before either.  lfn.chain is TRUE when long-name
\* records precede the short-name record; lfn.crc is the checksum they carry
\* and lfn.name the long name they spell.
RECURSIVE ListedFrom(_, _, _, _)
ListedFrom(lba, off, lfn, n) ==
    LET b == DirSector(lba)
    IN  IF n = 0 THEN [kind |-> "end", lba |-> lba, off |-> off, lfn |-> lfn]
        ELSE IF b[off] = 0
        THEN [kind |-> "eof", lba |-> lba, off |-> off, lfn |-> lfn]
        ELSE IF b[off] # 229 /\ b[off] # 5 /\ b[off + SFN_ATTR] % 16 # ATTR_LFN
        THEN [kind |-> "sfn", lba |-> lba, off |-> off, lfn |-> lfn]
        ELSE LET a == RecordAfter(lba, off)
             IN  IF a.end
                 THEN [kind |-> "end", lba |-> lba, off |-> off, lfn |-> lfn]
                 ELSE ListedFrom(a.lba, a.off,
                                 IF b[off] = 229 \/ b[off] = 5 THEN NoChain
                                 ELSE [chain |-> TRUE, crc |-> b[off + LFN_CRC],
                                       name |-> SlotChars(b, off) @@ lfn.name],
                                 n - 1)

\* The records of two clusters.
MaxRecords == 64

\* What the listing delivers next from the cursor.
Listed == ListedFrom(dir.sector, dir.rw_offset, NoChain, MaxRecords)

\* The long-name records before the listed record carry its checksum.
ListedChecksumGood ==
    Listed.lfn.chain
        => Listed.lfn.crc = fat_dir_sfn_crc(DirSector(Listed.lba), Listed.off)

\* The step is an fat_dir_read the device answered, from a cursor on a
\* record of the directory.
ReadStep ==
    /\ ret'.op = "fat_dir_read"
    /\ dir.vol_set
    /\ dir.rw_offset % 32 = 0 /\ dir.rw_offset < DirVol.sector_size
    /\ dir.sector >= DirVol.data_lba /\ dir.sector \in LBAs
    /\ ~DeviceFailed'

\* The call delivers the listed record and leaves the cursor on the record
\* after it, or answers EOF at the end marker and stays there.
ReadDeliversListed ==
    CASE Listed.kind = "eof" ->
            /\ ret'.r = FSTATUS_EOF
            /\ dir'.sector = Listed.lba /\ dir'.rw_offset = Listed.off
      [] Listed.kind = "sfn" /\ ListedChecksumGood ->
            /\ ret'.r = FSTATUS_OK
            /\ ret'.info.attribute = DirSector(Listed.lba)[Listed.off + SFN_ATTR]
            /\ ret'.info.size = fat_load32(DirSector(Listed.lba), Listed.off + SFN_FILE_SIZE)
            /\ LET a == RecordAfter(Listed.lba, Listed.off)
               IN  a.end \/ (dir'.sector = a.lba /\ dir'.rw_offset = a.off)
      [] OTHER -> TRUE

\* C21: successive fat_dir_read calls on an opened directory return one info
\* record per in-use short-name record, in on-disk order, each exactly once,
\* skipping the deleted records (0xE5, 0x05) and following the directory's
\* FAT chain across sector and cluster boundaries, and return EOF at the
\* first record whose first byte is 0x00, as does every later call.
C21_ReadsListDirectory == [][ReadStep => ReadDeliversListed]_vars

\* The same for a cursor opened on a subdirectory, whose cluster field names
\* the cluster of its sector.
SubdirReadsListDirectory ==
    [][(ReadStep /\ dir.cluster = fat_sect_to_clust(DirVol, dir.sector))
          => ReadDeliversListed]_vars

\* A read of /alpha has followed the chain from cluster 6 to cluster 4 and
\* delivered the record that starts the second cluster.
ReadCrossedClusters ==
    /\ ret.op = "fat_dir_read" /\ ret.r = FSTATUS_OK
    /\ ret.info.size = 9
    /\ dir.cluster = ListFat[AlphaCluster]
    /\ dir.sector = fat_clust_to_sect(DirVol, ListFat[AlphaCluster])
    /\ dir.rw_offset = 32

\* The 11 bytes of the short name of the listed record.
ListedSfnName == [i \in 0..10 |-> DirSector(Listed.lba)[Listed.off + i]]

\* The name the read yields for the listed record is the one its records
\* spell.
ReadYieldsName ==
    IF ~Listed.lfn.chain
    THEN /\ ret'.r = FSTATUS_OK
         /\ ret'.info.name = ListedSfnName
         /\ ret'.info.name_length = 11
    ELSE IF ListedChecksumGood
    THEN /\ ret'.r = FSTATUS_OK
         /\ ret'.info.name = Listed.lfn.name
         /\ ret'.info.name_length = Cardinality(DOMAIN Listed.lfn.name)
    ELSE ret'.r = FSTATUS_ERROR

\* C22: fat_dir_read on a short-name record preceded by a well-formed chain
\* of long-name records whose checksum equals sfn_crc of the short name
\* yields info.name equal to the long name (the slots' characters placed at
\* 13 * ((sequence & 0x1F) - 1)) and info.name_length equal to its length;
\* for a record without long-name records it yields the 11 raw bytes of the
\* short name with name_length 11; a chain whose checksum differs from
\* sfn_crc yields ERROR.
C22_ReadYieldsName == [][(ReadStep /\ Listed.kind = "sfn") => ReadYieldsName]_vars

\* The same for chains whose checksum byte is not 0, on cursors that reach
\* the listed record (it is in the cursor's sector, or the cursor's cluster
\* field names the cluster of its sector).
ReadYieldsNameUnlessZero ==
    [][(/\ ReadStep /\ Listed.kind = "sfn"
        /\ Listed.lfn.chain => Listed.lfn.crc # 0
        /\ Listed.lba = dir.sector \/ dir.cluster = fat_sect_to_clust(DirVol, dir.sector))
          => ReadYieldsName]_vars

\* A read has delivered "hello_world.txt" from its two long-name records.
ReadHelloWorldTxt ==
    /\ ret.op = "fat_dir_read" /\ ret.r = FSTATUS_OK
    /\ ret.info.name_length = 15
    /\ ret.info.name = [i \in 0..14 |-> HelloWorldTxt[i + 1]]

-----------------------------------------------------------------------------
(* fat_dir_rename: properties (behaviours of SpecRename) *)

\* ceil(L / 13) + 1 entries for a name of more than 8 characters, one
\* otherwise.
EntriesRequired(L) == IF L <= 8 THEN 1 ELSE ((L + 12) \div 13) + 1

\* C23: for every new name of length L <= 255 passed to fat_dir_rename, the
\* number of directory entries computed as required is 1 if L <= 8, and
\* ceil(L / 13) + 1 otherwise.
C23_EntriesRequired ==
    ret.op = "fat_dir_rename" => ret.entries_req = EntriesRequired(Len(ret.path))

\* For names of at most 8 characters the number computed is 1.
ShortNameOneEntry ==
    (ret.op = "fat_dir_rename" /\ Len(ret.path) <= 8) => ret.entries_req = 1

\* fat_dir_rename has found two entries present, on a cursor that is on a
\* long-name record.
RenameOnLongName ==
    /\ ret.op = "fat_dir_rename"
    /\ Len(ret.path) = 8
    /\ ret.entries_req = 1 /\ ret.entries_pres = 2

-----------------------------------------------------------------------------
(* fat_dir_search: properties (behaviours of SpecFind) *)

\* The in-use short-name records of the directory of the cursor from
\* (lba, off) on, in the order of its chain, each with the long-name records
\* that precede it.
RECURSIVE RecordsFrom(_, _, _)
RecordsFrom(lba, off, n) ==
    LET r == ListedFrom(lba, off, NoChain, MaxRecords)
        a == RecordAfter(r.lba, r.off)
    IN  IF n = 0 \/ r.kind # "sfn" THEN {}
        ELSE IF a.end THEN {r}
        ELSE {r} \cup RecordsFrom(a.lba, a.off, n - 1)

\* The long-name records before r spell the target, every slot its window
\* of 13 characters, and carry the checksum of the short name of r, which is
\* not 0.
LongNameMatch(r, target) ==
    /\ r.lfn.chain
    /\ r.lfn.crc # 0
    /\ r.lfn.crc = fat_dir_sfn_crc(DirSector(r.lba), r.off)
    /\ r.lfn.name = [i \in 0..(Len(target) - 1) |-> target[i + 1]]

\* The first characters of the target, 8 at most, are those of the short
\* name of r, case aside.
ShortNameMatch(r, target) ==
    \A j \in 0..((IF Len(target) > 8 THEN 8 ELSE Len(target)) - 1) :
        UpperCase(target[j + 1]) = DirSector(r.lba)[r.off + j]

\* The cursor was moved to what record r designates.
CursorTo(r) ==
    /\ dir'.cluster = FromHalves(fat_load16(DirSector(r.lba), r.off + SFN_CLUSTH),
                                 fat_load16(DirSector(r.lba), r.off + SFN_CLUSTL))
    /\ dir'.size = fat_load32(DirSector(r.lba), r.off + SFN_FILE_SIZE)

\* The step is a call of fat_dir_search that reports a match.
SearchMatched == ret'.op = "fat_dir_search" /\ ret'.r = 1 /\ dir.vol_set

\* C25: fat_dir_search reports a match through the long-name path only for a
\* short-name record preceded by long-name records in which every slot
\* matched its 13-character window of the target name and whose checksum
\* byte equals sfn_crc of that record, for every record of the directory
\* including the first chain; a stored long name that is only a proper
\* prefix of the target, or a chain whose checksum byte is 0, produces no
\* long-name match.  (A record whose short name matches is matched through
\* the short-name path.)
C25_LongNameMatchOnly ==
    [][SearchMatched
          => \E r \in RecordsFrom(dir.start_sect, 0, MaxRecords) :
                /\ LongNameMatch(r, ret'.path) \/ ShortNameMatch(r, ret'.path)
                /\ CursorTo(r)]_vars

\* The same for the target that is a stored long name.
StoredNameMatched ==
    [][(SearchMatched /\ ret'.path = HelloLong)
          => \E r \in RecordsFrom(dir.start_sect, 0, MaxRecords) :
                /\ LongNameMatch(r, ret'.path)
                /\ CursorTo(r)]_vars

\* fat_dir_search has matched "hello" in /alpha and moved the cursor to its
\* directory.
FoundHello ==
    /\ ret.op = "fat_dir_search" /\ ret.r = 1
    /\ ret.path = HelloLong
    /\ dir.cluster = HelloCluster

-----------------------------------------------------------------------------
(* fat_file_jump: properties (behaviours of SpecFile) *)

\* The volume of the file cursor.
FileVol == volumes[file.vol]

\* The cluster k hops down the chain from cluster c, or NoCluster when the
\* chain ends before.
NoCluster == 0 - 1
RECURSIVE ChainHop(_, _)
ChainHop(c, k) ==
    IF k = 0 THEN c
    ELSE LET e == FatEntryIn(FileVol, disk[DISK_SD_CARD], c)
         IN  IF IsEoc(e) THEN NoCluster ELSE ChainHop(e, k - 1)

\* The cluster of the file's chain that holds byte `offset`.
TargetCluster(offset) ==
    ChainHop(fat_sect_to_clust(FileVol, file.start_sect),
             offset \div (FileVol.sector_size * FileVol.cluster_size))

\* The step is a call of fat_file_jump the device answered.
JumpStep == ret'.op = "fat_file_jump" /\ ~DeviceFailed'

\* The cursor is on byte `offset` of the file.
JumpedTo(offset) ==
    /\ file'.cluster = TargetCluster(offset)
    /\ file'.sector = fat_clust_to_sect(FileVol, file'.cluster)
                         + ((offset \div FileVol.sector_size) % FileVol.cluster_size)
    /\ file'.rw_offset = offset % FileVol.sector_size
    /\ file'.glob_offset = offset

\* C26: an fat_file_jump(offset) that returns OK leaves cluster equal to the
\* floor(offset / (sector_size * cluster_size))-th cluster of the file's
\* chain, sector = clust_to_sect(cluster) + (offset / sector_size) %
\* cluster_size, rw_offset = offset % sector_size and glob_offset = offset;
\* if the chain reaches its end before the target cluster the call returns a
\* failure status (not OK) and leaves cluster, sector, rw_offset and
\* glob_offset as they were.
C26_JumpOrFail ==
    [][JumpStep
          => /\ ret'.r = FSTATUS_OK => JumpedTo(ret'.offset)
             /\ TargetCluster(ret'.offset) = NoCluster
                   => /\ ret'.r # FSTATUS_OK
                      /\ file'.cluster = file.cluster
                      /\ file'.sector = file.sector
                      /\ file'.rw_offset = file.rw_offset
                      /\ file'.glob_offset = file.glob_offset]_vars

\* The first half for the jumps whose target cluster is in the chain.
JumpInsideChain ==
    [][(JumpStep /\ TargetCluster(ret'.offset) # NoCluster)
          => (ret'.r = FSTATUS_OK /\ JumpedTo(ret'.offset))]_vars

\* A jump has moved the cursor into the second cluster of a file.
JumpedToSecondCluster ==
    /\ ret.op = "fat_file_jump" /\ ret.r = FSTATUS_OK
    /\ ret.offset = TwoClusterFileSize
    /\ file.cluster = FileChain[2]
    /\ file.glob_offset = TwoClusterFileSize

-----------------------------------------------------------------------------
(* fat_get_cluster: what it overwrites and where it scans (SpecAlloc) *)

\* The step is a call of fat_get_cluster on the mounted volume.
AllocStep == ret'.op = "fat_get_cluster" /\ volumes # <<>>

\* C27: the free-cluster allocator never takes a cluster that is in use:
\* fat_get_cluster overwrites with 0x0FFFFFFF only a FAT entry whose 28
\* significant bits are all zero, never an entry that holds a next-cluster
\* number, the bad-cluster mark or an end-of-chain mark, so that no chain is
\* truncated or cross-linked by an allocation.
C27_OnlyFreeEntriesTaken ==
    [][AllocStep
          => \A k \in FatClusters :
                FatEntryIn(Vol', disk'[DISK_SD_CARD], k) # FatEntryIn(Vol, disk[DISK_SD_CARD], k)
                   => IsFree(FatEntryIn(Vol, disk[DISK_SD_CARD], k))]_vars

\* The same with "free" read as the allocator tests it: the entries a call
\* changes had their low 7 bits zero and hold 0x0FFFFFFF afterwards.
OnlyAvailableEntriesTaken ==
    [][AllocStep
          => \A k \in FatClusters :
                FatEntryIn(Vol', disk'[DISK_SD_CARD], k) # FatEntryIn(Vol, disk[DISK_SD_CARD], k)
                   => /\ EntryAvailable(FatEntryIn(Vol, disk[DISK_SD_CARD], k))
                      /\ FatEntryIn(Vol', disk'[DISK_SD_CARD], k) = EOC_MARK]_vars

\* The sectors of the FAT.
FatSectors == {l \in LBAs : l >= Vol.fat_lba /\ l < Vol.fat_lba + Layout.fat_size}

\* The sectors the last call read from and wrote to the block device.
SectorsRead ==
    {io_log[i].lba : i \in {j \in DOMAIN io_log : io_log[j].ev = "disk_read"}}
SectorsWritten ==
    {io_log[i].lba : i \in {j \in DOMAIN io_log : io_log[j].ev = "disk_write"}}

\* The call's transfers are of FAT sectors and of the FSInfo sector, but for
\* the write-back of the sector the cache held dirty when the call began.
TransfersInFat ==
    /\ SectorsRead' \subseteq (FatSectors \cup {Vol.info_lba})
    /\ SectorsWritten' \subseteq
          (FatSectors \cup {Vol.info_lba}
              \cup (IF Vol.buffer_dirty # 0 THEN {Vol.buffer_lba} ELSE {}))

\* C28: fat_get_cluster terminates and stays inside the FAT: for every FAT
\* content and FSInfo next_free value, also with fewer than two free entries
\* at or after next_free, the call returns having read and written, besides
\* the FSInfo sector, only sectors in [fat_lba, fat_lba + fat_size), and it
\* reports failure when no free cluster exists.
C28_ScanStaysInFat ==
    [][AllocStep
          => /\ TransfersInFat
             /\ FreeFrom(Vol, disk[DISK_SD_CARD], 0) = {}
                   => (~ret'.done /\ ret'.r = 0)]_vars

\* The same for the calls that find two entries with low 7 bits zero in the
\* FAT at or after next_free.
ScanWithTwoAvailableStaysInFat ==
    [][(/\ AllocStep
        /\ InfoNextFree(Vol, disk[DISK_SD_CARD]) \in FatClusters
        /\ Cardinality(AvailableFrom(Vol, disk[DISK_SD_CARD],
                                     InfoNextFree(Vol, disk[DISK_SD_CARD]))) >= 2)
          => TransfersInFat]_vars

\* A call on a FAT without a free entry has run to its end: it took the
\* bytes 12..15 of the first root directory record for a free entry.
AllocatedOutsideFat ==
    /\ Allocated
    /\ ret.cluster \notin FatClusters

====
